---- MODULE Spec2Model ----
(***************************************************************************)
(* A model of the MyList feature: MyListService (addToMyList,              *)
(* removeFromMyList, getMyList) over MyListRepository (one MongoDB         *)
(* document per user), the content and user lookups, and CacheService over *)
(* the in-memory cache (InMemoryCacheService).  Every await of a service   *)
(* method that touches the list store or the cache is one step, so that    *)
(* concurrent requests interleave exactly where the event loop lets them.  *)
(***************************************************************************)
EXTENDS Integers, Sequences, FiniteSets, TLC

VARIABLES
    boot,       \* CacheServiceFactory.getInstance during initializeApp
    users,      \* the users collection: the ids of the documents in it
    catalog,    \* the movies and tvshows collections: type -> content ids
    lists,      \* the mylists collection: userId -> [exists, items, docs]
    cache,      \* InMemoryCacheService.cache: key string -> entry
    cacheOn,    \* CacheService.cache !== null
    now,        \* Date.now(), in clock ticks
    pc,         \* per request slot: the await the request is suspended at
    call,       \* per request slot: arguments and locals of the request
    ret         \* the request that returned last: arguments and outcome

vars == <<boot, users, catalog, lists, cache, cacheOn, now, pc, call, ret>>

----------------------------------------------------------------------------
(* Bounds of the model.                                                    *)

NumProcs == 2
MaxTime == 2
MaxPage == 3
MaxLimit == 2

Procs == 1..NumProcs

----------------------------------------------------------------------------
(* The collaborators' data: user directory and content catalog.  A string  *)
(* that the code formats into a cache key or a pattern is a sequence of    *)
(* characters, so that formatting and matching are computed, not assumed.  *)

UserA == <<"u">>
UserB == <<"u", "+">>
UserX == <<"x">>
UserIds == {UserA, UserB, UserX}
UserDirectory == {UserA, UserB}

ContentIds == {"c1", "c2", "c3"}
ContentTypes == {"Movie", "TVShow"}
MovieCatalog == {"c1", "c2"}
TVShowCatalog == {"c1", "c3"}
NoFilter == ""

\* UserRepository.exists
exists(u) == u \in users

\* ContentRepository.contentExists: countDocuments({id}) > 0 on the
\* collection of the type
contentExists(c, t) == c \in catalog[t]

----------------------------------------------------------------------------
(* The list store: MyListRepository over the mylists collection.           *)

\* docs and pages are history: how many documents with the userId were ever
\* inserted, and the pages of the user (cache key and response) that a
\* getMyList computed, cached and returned since the last write to the list
\* and since the last addToMyList or removeFromMyList of the user returned
NoList ==
    [exists |-> FALSE, items |-> <<>>, updatedAt |-> 0, docs |-> 0, pages |-> {}]

hasItem(items, c) == \E i \in 1..Len(items) : items[i].contentId = c

\* a variant of itemExists that overlooks the entries stored as TVShow
itemExistsMovieOnly(ls, u, c) ==
    /\ ls[u].exists
    /\ \E i \in 1..Len(ls[u].items) :
           /\ ls[u].items[i].contentId = c
           /\ ls[u].items[i].contentType = "Movie"

\* MyListRepository.itemExists: findOne({userId, 'items.contentId': contentId})
itemExists(ls, u, c) == ls[u].exists /\ hasItem(ls[u].items, c)

\* a variant of the filter without the $ne condition on items.contentId
AddFilterMatchesAnyList(ls, u, c) == ls[u].exists

\* The filter of addItem's findOneAndUpdate:
\* {userId, 'items.contentId': {$ne: item.contentId}}
AddFilterMatches(ls, u, c) == ls[u].exists /\ ~hasItem(ls[u].items, c)

\* a variant of PushItem whose update leaves the items as they are
PushItemLost(ls, u, item) == ls

\* $push of addItem's update on the matched document
PushItem(ls, u, item) ==
    [ls EXCEPT ![u].items = Append(ls[u].items, item), ![u].pages = {}]

\* a variant of UniqueIndexAllows for a collection without the index
UniqueIndexAbsent(ls, u) == TRUE

\* MyListSchema: userId is unique, so a document can be inserted only for a
\* userId that has none
UniqueIndexAllows(ls, u) == ~ls[u].exists

\* a variant of UpsertItem in which the inserted document takes the item from
\* $setOnInsert and from $push as well
UpsertItemPushed(ls, u, item) ==
    [ls EXCEPT ![u] = [exists |-> TRUE, items |-> <<item, item>>,
                       updatedAt |-> ls[u].updatedAt,
                       docs |-> ls[u].docs + 1, pages |-> {}]]

\* the upsert of addItem's update when no document matched: the insert of a
\* document for userId ($setOnInsert)
UpsertItem(ls, u, item) ==
    [ls EXCEPT ![u] = [exists |-> TRUE, items |-> <<item>>,
                       updatedAt |-> ls[u].updatedAt,
                       docs |-> ls[u].docs + 1, pages |-> {}]]

\* a variant of PullItem whose condition matches every entry
PullEvery(items, c) == <<>>

\* $pull: {items: {contentId}}
PullItem(items, c) == SelectSeq(items, LAMBDA e : e.contentId # c)

\* MyListRepository.removeItem: the document after findOneAndUpdate({userId},
\* {$pull}) and the boolean the method returns
RemoveItemLists(ls, u, c) ==
    IF ls[u].exists
    THEN [ls EXCEPT ![u].items = PullItem(ls[u].items, c), ![u].pages = {}]
    ELSE ls

\* $set: {updatedAt: new Date()} of addItem's and removeItem's update, on the
\* document the update matched or inserted
SetUpdatedAt(ls, u, t) ==
    IF ls[u].exists THEN [ls EXCEPT ![u].updatedAt = t] ELSE ls

\* history: an addToMyList or removeFromMyList of the user returns
ForgetPages(ls, u) == [ls EXCEPT ![u].pages = {}]

\* history: getMyList has stored the page under the key and returns it
RecordPage(ls, on, u, key, data) ==
    IF ~on
    THEN ls
    ELSE [ls EXCEPT ![u].pages =
             {e \in @ : e.key # key} \cup {[key |-> key, value |-> data]}]

\* a variant of removeItem that returns whether the entry was in the list
removeItemIfMember(ls, u, c) == itemExists(ls, u, c)

\* a variant of removeItem that looks the user up before the update
removeItemOfKnownUser(ls, u, c) ==
    IF ~exists(u) \/ ~ls[u].exists
    THEN FALSE
    ELSE ~hasItem(RemoveItemLists(ls, u, c)[u].items, c)

removeItem(ls, u, c) ==
    IF ~ls[u].exists
    THEN FALSE
    ELSE ~hasItem(RemoveItemLists(ls, u, c)[u].items, c)

----------------------------------------------------------------------------
(* MyListRepository.getItemsPaginated.                                     *)

\* Math.ceil(a / b) for a >= 0, b >= 1
Ceil(a, b) == IF a % b = 0 THEN a \div b ELSE (a \div b) + 1

\* a variant of InsertDesc that puts e before the entries of the same addedAt
InsertDescBeforeEqual(sorted, e) ==
    LET k == Cardinality({i \in 1..Len(sorted) : sorted[i].addedAt > e.addedAt})
    IN  SubSeq(sorted, 1, k) \o <<e>> \o SubSeq(sorted, k + 1, Len(sorted))

\* where Array.prototype.sort (stable) puts e among already sorted entries:
\* after every entry whose addedAt is not older
InsertDesc(sorted, e) ==
    LET k == Cardinality({i \in 1..Len(sorted) : sorted[i].addedAt >= e.addedAt})
    IN  SubSeq(sorted, 1, k) \o <<e>> \o SubSeq(sorted, k + 1, Len(sorted))

RECURSIVE SortByAddedAtDesc(_)
\* [...items].sort((a, b) => b.addedAt - a.addedAt)
SortByAddedAtDesc(items) ==
    IF items = <<>>
    THEN <<>>
    ELSE InsertDesc(SortByAddedAtDesc(SubSeq(items, 1, Len(items) - 1)),
                    items[Len(items)])

\* a variant of Slice whose end index is included
SliceInclusive(s, skip, end) ==
    IF skip >= Len(s) THEN <<>>
    ELSE SubSeq(s, skip + 1, IF end + 1 < Len(s) THEN end + 1 ELSE Len(s))

\* sortedItems.slice(skip, skip + limit)
Slice(s, skip, end) ==
    IF skip >= Len(s) THEN <<>>
    ELSE SubSeq(s, skip + 1, IF end < Len(s) THEN end ELSE Len(s))

PaginationMeta(page, limit, total) ==
    [page |-> page, limit |-> limit, total |-> total,
     totalPages |-> Ceil(total, limit),
     hasNextPage |-> page < Ceil(total, limit),
     hasPreviousPage |-> page > 1]

\* a variant of EmptyPaginatedResult that counts the empty page as a page
EmptyResultOnePage(page, limit) ==
    [items |-> <<>>,
     pagination |-> [page |-> page, limit |-> limit, total |-> 0,
                     totalPages |-> 1, hasNextPage |-> FALSE,
                     hasPreviousPage |-> FALSE]]

\* the result for a user without a document
EmptyPaginatedResult(page, limit) ==
    [items |-> <<>>,
     pagination |-> [page |-> page, limit |-> limit, total |-> 0,
                     totalPages |-> 0, hasNextPage |-> FALSE,
                     hasPreviousPage |-> FALSE]]

getItemsPaginated(ls, u, page, limit) ==
    IF ~ls[u].exists
    THEN EmptyPaginatedResult(page, limit)
    ELSE LET items == ls[u].items
             skip == (page - 1) * limit
         IN  [items |-> Slice(SortByAddedAtDesc(items), skip, skip + limit),
              pagination |-> PaginationMeta(page, limit, Len(items))]

----------------------------------------------------------------------------
(* MyListService.getMyList, from the store read to the response.           *)

\* ContentRepository.findContentsByIds: the ids of the contents it returns
\* (a Map keyed by content id, filled from the Movie and the TVShow query)
findContentsByIds(items) ==
    {items[i].contentId : i \in {j \in 1..Len(items) :
         contentExists(items[j].contentId, items[j].contentType)}}

\* step 3: result.items.filter(item => item.contentType === contentType)
ItemsToProcess(items, filter) ==
    IF filter # NoFilter
    THEN SelectSeq(items, LAMBDA e : e.contentType = filter)
    ELSE items

\* a variant of ItemsWithDetails that keeps the items without content
ItemsWithDetailsKeepAll(items, filter) == ItemsToProcess(items, filter)

\* step 5: the items whose content was found, in the order of the page
ItemsWithDetails(items, filter) ==
    LET toProcess == ItemsToProcess(items, filter)
        found == findContentsByIds(toProcess)
    IN  SelectSeq(toProcess, LAMBDA e : e.contentId \in found)

\* a variant of FilteredPagination that keeps hasNextPage of the store's page
FilteredPaginationKeepsNext(pagination, page, limit, totalFiltered) ==
    [pagination EXCEPT !.total = totalFiltered,
                       !.totalPages = Ceil(totalFiltered, limit),
                       !.hasPreviousPage = page > 1]

\* step 6: the pagination recalculated over the filtered items
FilteredPagination(pagination, page, limit, totalFiltered) ==
    [pagination EXCEPT !.total = totalFiltered,
                       !.totalPages = Ceil(totalFiltered, limit),
                       !.hasNextPage = page < Ceil(totalFiltered, limit),
                       !.hasPreviousPage = page > 1]

\* the response getMyList builds from the repository's result
BuildResponse(result, page, limit, filter) ==
    IF Len(result.items) = 0
    THEN [data |-> <<>>, pagination |-> result.pagination]
    ELSE LET data == ItemsWithDetails(result.items, filter)
         IN  [data |-> data,
              pagination |->
                  IF filter # NoFilter
                  THEN FilteredPagination(result.pagination, page, limit, Len(data))
                  ELSE result.pagination]

\* what getMyList answers without any cache: computed from the store
ComputeResponse(ls, u, page, limit, filter) ==
    BuildResponse(getItemsPaginated(ls, u, page, limit), page, limit, filter)

----------------------------------------------------------------------------
(* CacheService: keys and patterns, as the strings the code formats.       *)

CACHE_TTL_SECONDS == 300
TicksPerSecond == 1000

Digit == <<"0", "1", "2", "3", "4", "5", "6", "7", "8", "9">>

RECURSIVE NumberToString(_)
\* `${n}` of a number n >= 0
NumberToString(n) ==
    IF n < 10
    THEN <<Digit[n + 1]>>
    ELSE NumberToString(n \div 10) \o <<Digit[(n % 10) + 1]>>

\* a variant of getListCacheKey that leaves the content type out of the key
getListCacheKeyUnfiltered(u, page, limit, contentType) ==
    <<"mylist", ":">> \o u \o <<":">> \o NumberToString(page)
        \o <<":">> \o NumberToString(limit)

\* CacheService.getListCacheKey: `mylist:${userId}:${page}:${limit}`, and
\* `:${contentType}` after it when a content type is given
getListCacheKey(u, page, limit, contentType) ==
    LET baseKey == <<"mylist", ":">> \o u \o <<":">> \o NumberToString(page)
                   \o <<":">> \o NumberToString(limit)
    IN  IF contentType # NoFilter THEN baseKey \o <<":", contentType>> ELSE baseKey

\* CacheService.getUserCachePattern: `mylist:${userId}:*`
getUserCachePattern(u) == <<"mylist", ":">> \o u \o <<":", "*">>

----------------------------------------------------------------------------
(* InMemoryCacheService.deletePattern: new RegExp(pattern.replace(/\*/g,   *)
(* '.*')) tested against every key.  The regular expressions covered are   *)
(* those over literal characters, '.', and the quantifiers '*' and '+'.    *)

RECURSIVE ReplaceStars(_)
\* pattern.replace(/\*/g, '.*')
ReplaceStars(pattern) ==
    IF pattern = <<>>
    THEN <<>>
    ELSE (IF Head(pattern) = "*" THEN <<".", "*">> ELSE <<Head(pattern)>>)
         \o ReplaceStars(Tail(pattern))

Quantifiers == {"*", "+"}

RECURSIVE RegExpAtoms(_, _)
\* new RegExp(source): the atoms of the source, each with its quantifier;
\* acc holds the atoms read so far
RegExpAtoms(source, acc) ==
    IF source = <<>>
    THEN acc
    ELSE IF Head(source) \in Quantifiers
         THEN RegExpAtoms(Tail(source),
                  [acc EXCEPT ![Len(acc)].q = Head(source)])
         ELSE RegExpAtoms(Tail(source),
                  Append(acc, [ch |-> Head(source), q |-> "1"]))

RECURSIVE RegExpValid(_, _)
\* new RegExp(source) throws "Nothing to repeat" for a quantifier that
\* follows no atom or another quantifier; prev: an atom precedes
RegExpValid(source, prev) ==
    IF source = <<>>
    THEN TRUE
    ELSE IF Head(source) \in Quantifiers
         THEN prev /\ RegExpValid(Tail(source), FALSE)
         ELSE RegExpValid(Tail(source), TRUE)

RECURSIVE MatchAt(_, _, _, _)
\* atoms i.. match a prefix of s that starts at position j
MatchAt(atoms, i, s, j) ==
    IF i > Len(atoms)
    THEN TRUE
    ELSE LET a == atoms[i]
             one == j <= Len(s) /\ (a.ch = "." \/ s[j] = a.ch)
         IN  CASE a.q = "1" -> one /\ MatchAt(atoms, i + 1, s, j + 1)
               [] a.q = "*" -> \/ MatchAt(atoms, i + 1, s, j)
                               \/ one /\ MatchAt(atoms, i, s, j + 1)
               [] a.q = "+" -> one /\ MatchAt([atoms EXCEPT ![i].q = "*"],
                                              i, s, j + 1)

\* regex.test(key): the expression is not anchored
RegExpTest(atoms, key) == \E j \in 1..(Len(key) + 1) : MatchAt(atoms, 1, key, j)

\* InMemoryCacheService.deletePattern; an invalid expression throws before
\* any key is deleted, and CacheService.invalidateUserList logs the error
deletePattern(c, pattern) ==
    LET source == ReplaceStars(pattern)
    IN  IF ~RegExpValid(source, FALSE)
        THEN c
        ELSE LET atoms == RegExpAtoms(source, <<>>)
                 kept == {k \in DOMAIN c : ~RegExpTest(atoms, k)}
             IN  [k \in kept |-> c[k]]

RECURSIVE GlobMatch(_, _)
\* the glob of KEYS pattern as RedisCacheService.deletePattern uses it: '*'
\* stands for any run of characters, '?' for one character, every other
\* character for itself (character classes and escapes are not covered)
GlobMatch(pattern, key) ==
    IF pattern = <<>>
    THEN key = <<>>
    ELSE IF Head(pattern) = "*"
    THEN \/ GlobMatch(Tail(pattern), key)
         \/ key # <<>> /\ GlobMatch(pattern, Tail(key))
    ELSE /\ key # <<>>
         /\ Head(pattern) = "?" \/ Head(pattern) = Head(key)
         /\ GlobMatch(Tail(pattern), Tail(key))

\* RedisCacheService.deletePattern: client.keys(pattern), then client.del
RedisDeletePattern(c, pattern) ==
    LET kept == {k \in DOMAIN c : ~GlobMatch(pattern, k)}
    IN  [k \in kept |-> c[k]]

\* CacheService.invalidateUserList, on the backing cache that
\* CacheServiceFactory.getInstance has chosen
invalidateUserList(c, on, u) ==
    IF ~on THEN c
    ELSE IF boot.instance = "redis"
    THEN RedisDeletePattern(c, getUserCachePattern(u))
    ELSE deletePattern(c, getUserCachePattern(u))

\* the time to live of a cached page in clock ticks
TtlTicks == CACHE_TTL_SECONDS * TicksPerSecond

\* a variant of CacheHit that returns an entry whatever its expiry
CacheHitNoExpiry(c, on, key, t) == on /\ key \in DOMAIN c

\* InMemoryCacheService.get through CacheService.getCachedList: is there an
\* entry for the key that has not expired
CacheHit(c, on, key, t) == on /\ key \in DOMAIN c /\ ~(c[key].expiry < t)

\* a variant of CacheAfterGet that deletes every entry it finds expired
CacheAfterGetSweeps(c, on, key, t) ==
    IF on
    THEN [k \in {j \in DOMAIN c : ~(c[j].expiry < t)} |-> c[k]]
    ELSE c

\* InMemoryCacheService.get deletes an entry it finds expired
CacheAfterGet(c, on, key, t) ==
    IF on /\ key \in DOMAIN c /\ c[key].expiry < t
    THEN [k \in DOMAIN c \ {key} |-> c[k]]
    ELSE c

----------------------------------------------------------------------------
(* What the backing cache keeps for a page and what it gives back.  The    *)
(* in-memory cache keeps the object it was handed.  The Redis cache keeps  *)
(* JSON.stringify(value) and gives back JSON.parse of it: a Date is        *)
(* written as the string of its toISOString() and read back as that        *)
(* string.  A Date is a number of milliseconds since the epoch; a value    *)
(* whose type matters is a record of its type and its printed form.        *)

\* a number below 100 in two digits, below 1000 in three
Pad2(n) == <<Digit[(n \div 10) + 1], Digit[(n % 10) + 1]>>
Pad3(n) == <<Digit[(n \div 100) + 1]>> \o Pad2(n % 100)

\* Date.prototype.toISOString for a date of the first day of the epoch
toISOString(ms) ==
    <<"1970-01-01", "T">> \o Pad2((ms \div 3600000) % 24) \o <<":">>
        \o Pad2((ms \div 60000) % 60) \o <<":">>
        \o Pad2((ms \div 1000) % 60) \o <<".">> \o Pad3(ms % 1000) \o <<"Z">>

\* the page as the service built it: addedAt of each item is a Date
JsPage(response) ==
    [data |-> [i \in DOMAIN response.data |->
                  [response.data[i] EXCEPT
                      !.addedAt = [type |-> "Date", text |-> toISOString(@)]]],
     pagination |-> response.pagination]

\* JSON.stringify(value): the members in order, a Date through its toJSON
JSONStringify(response) ==
    [data |-> [i \in DOMAIN response.data |->
                  [response.data[i] EXCEPT
                      !.addedAt = [json |-> "string", text |-> toISOString(@)]]],
     pagination |-> response.pagination]

\* JSON.parse(text) without a reviver: every member comes back as the
\* JavaScript value of the type it has in the text
JSONParse(json) ==
    [data |-> [i \in DOMAIN json.data |->
                  [json.data[i] EXCEPT
                      !.addedAt = [type |-> @.json, text |-> @.text]]],
     pagination |-> json.pagination]

\* what the backing cache keeps for the value handed to set
StoredValue(value) ==
    IF boot.instance = "redis" THEN JSONStringify(value) ELSE value

\* what get gives back for an entry
CachedValue(entry) ==
    IF boot.instance = "redis" THEN JSONParse(entry.value) ELSE entry.value

\* a variant of setCachedList that hands the time to live over in
\* milliseconds where InMemoryCacheService.set expects seconds
setCachedListMillis(c, on, key, u, data, t, overtaken) ==
    IF ~on
    THEN c
    ELSE [k \in DOMAIN c \cup {key} |->
             IF k = key
             THEN [value |-> StoredValue(data), handed |-> data,
                   expiry |-> t + CACHE_TTL_SECONDS * TicksPerSecond * TicksPerSecond,
                   owner |-> u, cachedAt |-> t, behind |-> overtaken,
                   pending |-> {}, stale |-> FALSE]
             ELSE c[k]]

\* The backing cache's set through CacheService.setCachedList.  handed,
\* owner, cachedAt, behind, pending and stale are history: the page that
\* was handed to set, whose page the entry is, when it was stored,
\* whether the store was written after the page was read from it, which mutations wrote to the store after the page was
\* cached and have not returned, and whether one of them has returned.
setCachedList(c, on, key, u, data, t, overtaken) ==
    IF ~on
    THEN c
    ELSE [k \in DOMAIN c \cup {key} |->
             IF k = key
             THEN [value |-> StoredValue(data), handed |-> data,
                   expiry |-> t + CACHE_TTL_SECONDS * TicksPerSecond,
                   owner |-> u, cachedAt |-> t, behind |-> overtaken,
                   pending |-> {}, stale |-> FALSE]
             ELSE c[k]]

----------------------------------------------------------------------------
(* History kept in the cache entries, for the properties on invalidation.  *)

\* a mutation by request p has written to u's list: every page of u cached
\* so far was cached before that write
MarkWritten(c, u, p) ==
    [k \in DOMAIN c |->
        IF c[k].owner = u
        THEN [c[k] EXCEPT !.pending = c[k].pending \cup {p}, !.behind = TRUE]
        ELSE c[k]]

\* the same write overtakes every page of u that a getMyList has read from
\* the store and not yet stored in the cache
MarkOvertaken(cl, at, u) ==
    [q \in DOMAIN cl |->
        IF at[q] = "get_setCache" /\ cl[q].userId = u
        THEN [cl[q] EXCEPT !.overtaken = TRUE]
        ELSE cl[q]]

\* the mutation by request p has returned
MarkReturned(c, p) ==
    [k \in DOMAIN c |->
        IF p \in c[k].pending
        THEN [c[k] EXCEPT !.pending = c[k].pending \ {p}, !.stale = TRUE]
        ELSE c[k]]

----------------------------------------------------------------------------
(* Requests.                                                               *)

NoPagination == [page |-> 0, limit |-> 0, total |-> 0, totalPages |-> 0,
                 hasNextPage |-> FALSE, hasPreviousPage |-> FALSE]
NoResponse == [data |-> <<>>, pagination |-> NoPagination]

\* fromCache, staleHit and overtaken are history: whether the response came
\* out of the cache, and out of an entry that a returned mutation should
\* have dropped, and whether the store was written after the response was
\* read from it
Idle == [op |-> "none", userId |-> <<>>, contentId |-> "", contentType |-> "",
         page |-> 0, limit |-> 0, addedAt |-> 0, err |-> "",
         outcome |-> "", response |-> NoResponse, fromCache |-> FALSE,
         staleHit |-> FALSE, overtaken |-> FALSE, cacheFailed |-> FALSE,
         details |-> FALSE, via |-> "controller"]

\* the request returns to its caller: outcome is "success" or the error
\* thrown; its slot is free again
Finish(p, c, outcome) ==
    /\ pc' = [pc EXCEPT ![p] = "idle"]
    /\ call' = [call EXCEPT ![p] = Idle]
    /\ ret' = [c EXCEPT !.outcome = outcome]

\* a variant of AddPrecondition that looks the content up before the user
AddPreconditionContentFirst(u, c, t) ==
    IF ~contentExists(c, t) THEN "ContentNotFoundError"
    ELSE IF ~exists(u) THEN "UserNotFoundError"
    ELSE ""

\* addToMyList steps 1 and 2: the error of the first lookup that fails
AddPrecondition(u, c, t) ==
    IF ~exists(u) THEN "UserNotFoundError"
    ELSE IF ~contentExists(c, t) THEN "ContentNotFoundError"
    ELSE ""

\* MyListService.addToMyList is called: user lookup, then content lookup
AddToMyList(p, u, c, t) ==
    /\ pc[p] = "idle"
    /\ LET args == [Idle EXCEPT !.op = "add", !.userId = u, !.contentId = c,
                                !.contentType = t]
       IN  IF AddPrecondition(u, c, t) # ""
           THEN Finish(p, args, AddPrecondition(u, c, t))
           ELSE /\ pc' = [pc EXCEPT ![p] = "add_itemExists"]
                /\ call' = [call EXCEPT ![p] = args]
                /\ UNCHANGED ret
    /\ UNCHANGED <<boot, users, catalog, lists, cache, cacheOn, now>>

\* step 3: the service's duplicate check; step 4: the item, addedAt = new Date()
ServiceItemExists(p) ==
    /\ pc[p] = "add_itemExists"
    /\ IF itemExists(lists, call[p].userId, call[p].contentId)
       THEN Finish(p, call[p], "DuplicateItemError")
       ELSE /\ pc' = [pc EXCEPT ![p] = "repo_itemExists"]
            /\ call' = [call EXCEPT ![p].addedAt = now]
            /\ UNCHANGED ret
    /\ UNCHANGED <<boot, users, catalog, lists, cache, cacheOn, now>>

\* MyListRepository.addItem: the quick check; its Error is not one the
\* service knows, so the service logs and rethrows it
RepoItemExists(p) ==
    /\ pc[p] = "repo_itemExists"
    /\ IF itemExists(lists, call[p].userId, call[p].contentId)
       THEN Finish(p, call[p], "Error: Item already exists in list")
       ELSE /\ pc' = [pc EXCEPT ![p] = "repo_update"]
            /\ UNCHANGED <<call, ret>>
    /\ UNCHANGED <<boot, users, catalog, lists, cache, cacheOn, now>>

\* MyListRepository.addItem: findOneAndUpdate with upsert.  A document that
\* matches the filter gets the item pushed, atomically.  When none matches
\* (the user has no document, or one that holds the content id) the upsert
\* goes on to insert a document, which is a later step of the server: other
\* writes can land in between.
RepoFindOneAndUpdate(p) ==
    /\ pc[p] = "repo_update"
    /\ LET u == call[p].userId
           item == [contentId |-> call[p].contentId,
                    contentType |-> call[p].contentType,
                    addedAt |-> call[p].addedAt]
       IN  IF AddFilterMatches(lists, u, item.contentId)
           THEN /\ lists' = SetUpdatedAt(PushItem(lists, u, item), u, now)
                /\ cache' = MarkWritten(cache, u, p)
                /\ call' = MarkOvertaken(call, pc, u)
                /\ pc' = [pc EXCEPT ![p] = "add_invalidate"]
           ELSE /\ pc' = [pc EXCEPT ![p] = "repo_insert"]
                /\ UNCHANGED <<lists, cache, call>>
    /\ UNCHANGED <<boot, users, catalog, cacheOn, now, ret>>

\* the insert of the upsert: the unique index on userId lets it through for
\* a user without a document and fails it with the duplicate-key error
\* (E11000) otherwise
RepoUpsertInsert(p) ==
    /\ pc[p] = "repo_insert"
    /\ LET u == call[p].userId
           item == [contentId |-> call[p].contentId,
                    contentType |-> call[p].contentType,
                    addedAt |-> call[p].addedAt]
       IN  IF UniqueIndexAllows(lists, u)
           THEN /\ lists' = SetUpdatedAt(UpsertItem(lists, u, item), u, now)
                /\ cache' = MarkWritten(cache, u, p)
                /\ call' = MarkOvertaken(call, pc, u)
                /\ pc' = [pc EXCEPT ![p] = "add_invalidate"]
           ELSE /\ pc' = [pc EXCEPT ![p] = "repo_catch"]
                /\ call' = [call EXCEPT ![p].err = "MongoServerError: E11000"]
                /\ UNCHANGED <<lists, cache>>
    /\ UNCHANGED <<boot, users, catalog, cacheOn, now, ret>>

\* the store fails the update for a reason of its own (it is unreachable, or
\* the server refuses the update document), and nothing is written
RepoUpdateFails(p) ==
    /\ pc[p] = "repo_update"
    /\ pc' = [pc EXCEPT ![p] = "repo_catch"]
    /\ call' = [call EXCEPT ![p].err = "MongoServerError"]
    /\ UNCHANGED <<boot, users, catalog, lists, cache, cacheOn, now, ret>>

\* MyListRepository.addItem, catch: the re-check for a concurrent add
RepoCatch(p) ==
    /\ pc[p] = "repo_catch"
    /\ IF itemExists(lists, call[p].userId, call[p].contentId)
       THEN Finish(p, call[p], "Error: Item already exists in list")
       ELSE Finish(p, call[p], call[p].err)
    /\ UNCHANGED <<boot, users, catalog, lists, cache, cacheOn, now>>

\* step 5 of addToMyList and the last step of removeFromMyList:
\* cacheService.invalidateUserList, then the method returns
InvalidateAndReturn(p) ==
    /\ pc[p] \in {"add_invalidate", "remove_invalidate"}
    /\ cache' = MarkReturned(invalidateUserList(cache, cacheOn, call[p].userId), p)
    /\ lists' = ForgetPages(lists, call[p].userId)
    /\ Finish(p, [call[p] EXCEPT !.cacheFailed = ~cacheOn], "success")
    /\ UNCHANGED <<boot, users, catalog, cacheOn, now>>

\* MyListService.removeFromMyList is called: myListRepository.removeItem
RemoveFromMyList(p, u, c) ==
    /\ pc[p] = "idle"
    /\ LET args == [Idle EXCEPT !.op = "remove", !.userId = u, !.contentId = c]
       IN  IF removeItem(lists, u, c)
           THEN /\ lists' = SetUpdatedAt(RemoveItemLists(lists, u, c), u, now)
                /\ cache' = MarkWritten(cache, u, p)
                /\ pc' = [pc EXCEPT ![p] = "remove_invalidate"]
                /\ call' = [MarkOvertaken(call, pc, u) EXCEPT ![p] = args]
                /\ UNCHANGED ret
           ELSE /\ lists' = SetUpdatedAt(RemoveItemLists(lists, u, c), u, now)
                /\ Finish(p, args, "ItemNotFoundError")
                /\ UNCHANGED cache
    /\ UNCHANGED <<boot, users, catalog, cacheOn, now>>

\* MyListService.getMyList is called: step 1, the cache lookup
GetMyList(p, u, page, limit, filter) ==
    /\ pc[p] = "idle"
    /\ LET args == [Idle EXCEPT !.op = "get", !.userId = u, !.page = page,
                                !.limit = limit, !.contentType = filter]
           key == getListCacheKey(u, page, limit, filter)
       IN  IF CacheHit(cache, cacheOn, key, now)
           THEN /\ Finish(p, [args EXCEPT !.response = CachedValue(cache[key]),
                                          !.fromCache = TRUE,
                                          !.staleHit = cache[key].stale],
                          "success")
                /\ UNCHANGED cache
           ELSE /\ pc' = [pc EXCEPT ![p] = "get_store"]
                /\ call' = [call EXCEPT ![p] = [args EXCEPT !.cacheFailed = ~cacheOn]]
                /\ UNCHANGED ret
                /\ cache' = CacheAfterGet(cache, cacheOn, key, now)
    /\ UNCHANGED <<boot, users, catalog, lists, cacheOn, now>>

\* steps 2 to 6: getItemsPaginated, the content lookup and the response
GetFromStore(p) ==
    /\ pc[p] = "get_store"
    /\ pc' = [pc EXCEPT ![p] = "get_setCache"]
    /\ call' = [call EXCEPT ![p].response =
                   ComputeResponse(lists, call[p].userId, call[p].page,
                                   call[p].limit, call[p].contentType)]
    /\ UNCHANGED <<boot, users, catalog, lists, cache, cacheOn, now, ret>>

\* step 7: setCachedList, then the method returns the response
GetSetCache(p) ==
    /\ pc[p] = "get_setCache"
    /\ cache' = setCachedList(cache, cacheOn,
                    getListCacheKey(call[p].userId, call[p].page, call[p].limit,
                                    call[p].contentType),
                    call[p].userId, call[p].response, now,
                    call[p].overtaken)
    /\ lists' = RecordPage(lists, cacheOn, call[p].userId,
                    getListCacheKey(call[p].userId, call[p].page, call[p].limit,
                                    call[p].contentType),
                    call[p].response)
    /\ Finish(p, [call[p] EXCEPT !.cacheFailed = @ \/ ~cacheOn], "success")
    /\ UNCHANGED <<boot, users, catalog, cacheOn, now>>

\* a variant of the catch blocks of CacheService that rethrows the error
CacheErrorRethrown(failed) == IF failed THEN "Error: cache" ELSE ""

\* catch blocks of getCachedList, setCachedList and invalidateUserList: the
\* error of the backing cache is logged and nothing reaches the service
CacheErrorThrown(failed) == ""

\* getMyList is called and the read of the backing cache throws:
\* getCachedList returns null and the service goes on as after a miss
GetMyListCacheFails(p, u, page, limit, filter) ==
    /\ pc[p] = "idle"
    /\ cacheOn
    /\ LET args == [Idle EXCEPT !.op = "get", !.userId = u, !.page = page,
                                !.limit = limit, !.contentType = filter,
                                !.cacheFailed = TRUE]
           thrown == CacheErrorThrown(TRUE)
       IN  IF thrown # ""
           THEN Finish(p, args, thrown)
           ELSE /\ pc' = [pc EXCEPT ![p] = "get_store"]
                /\ call' = [call EXCEPT ![p] = args]
                /\ UNCHANGED ret
    /\ UNCHANGED <<boot, users, catalog, lists, cache, cacheOn, now>>

\* step 7 of getMyList when the write to the backing cache throws: nothing
\* is stored and the response is returned
GetSetCacheFails(p) ==
    /\ pc[p] = "get_setCache"
    /\ cacheOn
    /\ LET thrown == CacheErrorThrown(TRUE)
       IN  Finish(p, [call[p] EXCEPT !.cacheFailed = TRUE],
                  IF thrown # "" THEN thrown ELSE "success")
    /\ UNCHANGED <<boot, users, catalog, lists, cache, cacheOn, now>>

\* the invalidation of addToMyList or removeFromMyList when deletePattern
\* throws: no key is deleted and the method returns
InvalidateFails(p) ==
    /\ pc[p] \in {"add_invalidate", "remove_invalidate"}
    /\ cacheOn
    /\ LET thrown == CacheErrorThrown(TRUE)
       IN  Finish(p, [call[p] EXCEPT !.cacheFailed = TRUE],
                  IF thrown # "" THEN thrown ELSE "success")
    /\ UNCHANGED <<boot, users, catalog, cache, cacheOn, now>>
    /\ lists' = ForgetPages(lists, call[p].userId)

\* a content item is deleted from the collection of its type, by whoever
\* maintains the catalog; the lists that hold it are not told
ContentDeleted(c, t) ==
    /\ c \in catalog[t]
    /\ catalog' = [catalog EXCEPT ![t] = @ \ {c}]
    /\ UNCHANGED <<boot, users, lists, cache, cacheOn, now, pc, call, ret>>

\* a user's document is deleted from the users collection, by whoever
\* maintains the accounts; the user's list is not told
UserDeleted(u) ==
    /\ u \in users
    /\ users' = users \ {u}
    /\ UNCHANGED <<boot, catalog, lists, cache, cacheOn, now, pc, call, ret>>

\* the clock advances by the time to live of a cached page
TickTtl ==
    /\ now < MaxTime * TtlTicks
    /\ now' = now + TtlTicks
    /\ UNCHANGED <<boot, users, catalog, lists, cache, cacheOn, pc, call, ret>>

\* the cleanup timer of InMemoryCacheService deletes the expired entries
SweepExpired ==
    /\ cache' = [k \in {j \in DOMAIN cache : ~(cache[j].expiry < now)} |-> cache[k]]
    /\ UNCHANGED <<boot, users, catalog, lists, cacheOn, now, pc, call, ret>>

\* the connection to the backing cache is lost or comes back; while it is
\* lost every cache operation returns at once (null for a read)
CacheConnectionChanges ==
    /\ cacheOn' = ~cacheOn
    /\ UNCHANGED <<boot, users, catalog, lists, cache, now, pc, call, ret>>

\* the clock advances
Tick ==
    /\ now < MaxTime
    /\ now' = now + 1
    /\ UNCHANGED <<boot, users, catalog, lists, cache, cacheOn, pc, call, ret>>

----------------------------------------------------------------------------
(* The HTTP layer: the routes with their validation, MyListController and  *)
(* the global error handler.  A request parameter is the string the client *)
(* sent; Absent is a parameter the client did not send.                    *)

Absent == <<"undefined">>

BusinessErrors == {"ContentNotFoundError", "DuplicateItemError",
                   "ItemNotFoundError", "UserNotFoundError"}

StoreError == "MongoNetworkError"
ValidationFailed == "Error: Validation failed"
GenericMessage == "An unexpected error occurred"

\* does Joi.number() convert the string: digits only
IsNumeric(str) ==
    /\ Len(str) > 0
    /\ \A i \in 1..Len(str) : \E d \in 1..10 : Digit[d] = str[i]

RECURSIVE ToNumber(_)
\* the number a string of digits is converted to
ToNumber(str) ==
    IF Len(str) = 0
    THEN 0
    ELSE 10 * ToNumber(SubSeq(str, 1, Len(str) - 1))
         + (CHOOSE d \in 0..9 : Digit[d + 1] = str[Len(str)])

\* addToMyListRequestSchema: contentId a non-empty string, contentType
\* 'Movie' or 'TVShow', both required
addToMyListRequestValid(contentId, contentType) ==
    /\ contentId \notin {Absent, <<>>}
    /\ contentType \in {<<"Movie">>, <<"TVShow">>}

\* listMyItemsQuerySchema: page an integer >= 1, limit an integer in
\* 1..100, contentType 'Movie' or 'TVShow', all optional
listMyItemsQueryValid(page, limit, contentType) ==
    /\ page # Absent => (IsNumeric(page) /\ ToNumber(page) >= 1)
    /\ limit # Absent
           => (IsNumeric(limit) /\ ToNumber(limit) >= 1 /\ ToNumber(limit) <= 100)
    /\ contentType \in {Absent, <<"Movie">>, <<"TVShow">>}

\* an error nobody has attached a status code or an error response to
Unhandled(error) == [statusCode |-> 0, code |-> "", message |-> ""]

\* a variant of handleError that puts the message of an unknown error into
\* the response
handleErrorWithMessage(error, details) ==
    IF error = "ContentNotFoundError"
    THEN [statusCode |-> 404, code |-> "CONTENT_NOT_FOUND", message |-> error]
    ELSE IF error = "DuplicateItemError"
    THEN [statusCode |-> 409, code |-> "DUPLICATE_ITEM", message |-> error]
    ELSE IF error = "ItemNotFoundError"
    THEN [statusCode |-> 404, code |-> "ITEM_NOT_FOUND", message |-> error]
    ELSE IF error = "UserNotFoundError"
    THEN [statusCode |-> 404, code |-> "USER_NOT_FOUND", message |-> error]
    ELSE IF details
    THEN [statusCode |-> 400, code |-> "VALIDATION_ERROR",
          message |-> "Request validation failed"]
    ELSE [statusCode |-> 500, code |-> "INTERNAL_SERVER_ERROR", message |-> error]

\* a variant of handleError that reports an item that is not in the list
\* with the code of a content that is not in the catalog
handleErrorItemAsContent(error, details) ==
    IF error \in {"ContentNotFoundError", "ItemNotFoundError"}
    THEN [statusCode |-> 404, code |-> "CONTENT_NOT_FOUND", message |-> error]
    ELSE IF error = "DuplicateItemError"
    THEN [statusCode |-> 409, code |-> "DUPLICATE_ITEM", message |-> error]
    ELSE IF error = "UserNotFoundError"
    THEN [statusCode |-> 404, code |-> "USER_NOT_FOUND", message |-> error]
    ELSE IF details
    THEN [statusCode |-> 400, code |-> "VALIDATION_ERROR",
          message |-> "Request validation failed"]
    ELSE [statusCode |-> 500, code |-> "INTERNAL_SERVER_ERROR",
          message |-> GenericMessage]

\* MyListController.handleError: the status code and the error response it
\* attaches to the error before it passes it to next()
handleError(error, details) ==
    IF error = "ContentNotFoundError"
    THEN [statusCode |-> 404, code |-> "CONTENT_NOT_FOUND", message |-> error]
    ELSE IF error = "DuplicateItemError"
    THEN [statusCode |-> 409, code |-> "DUPLICATE_ITEM", message |-> error]
    ELSE IF error = "ItemNotFoundError"
    THEN [statusCode |-> 404, code |-> "ITEM_NOT_FOUND", message |-> error]
    ELSE IF error = "UserNotFoundError"
    THEN [statusCode |-> 404, code |-> "USER_NOT_FOUND", message |-> error]
    ELSE IF details
    THEN [statusCode |-> 400, code |-> "VALIDATION_ERROR",
          message |-> "Request validation failed"]
    ELSE [statusCode |-> 500, code |-> "INTERNAL_SERVER_ERROR",
          message |-> GenericMessage]

\* errorHandler: error.statusCode || 500 and error.errorResponse || the
\* generic response
errorHandler(error) ==
    [status |-> IF error.statusCode # 0 THEN error.statusCode ELSE 500,
     code |-> IF error.code # "" THEN error.code ELSE "INTERNAL_SERVER_ERROR",
     message |-> IF error.code # "" THEN error.message ELSE GenericMessage]

\* res.status(...) of the controller method that succeeded
SuccessStatus(op) ==
    IF op = "add" THEN 201 ELSE IF op = "remove" THEN 204 ELSE 200

\* the response to the request that returned r: the controller answers a
\* success itself and hands an error of the service to handleError and
\* next(); an error thrown in the route goes to next() as it is
HttpResponse(r) ==
    IF r.outcome = "success"
    THEN [status |-> SuccessStatus(r.op), code |-> "", message |-> ""]
    ELSE errorHandler(IF r.via = "route"
                      THEN Unhandled(r.outcome)
                      ELSE handleError(r.outcome, r.details))

\* POST /items: validate(addToMyListRequestSchema, req.body), then
\* controller.addToMyList
PostItems(p, u, contentId, contentType) ==
    IF addToMyListRequestValid(contentId, contentType)
    THEN AddToMyList(p, u, contentId[1], contentType[1])
    ELSE /\ pc[p] = "idle"
         /\ Finish(p, [Idle EXCEPT !.op = "add", !.userId = u,
                                   !.details = TRUE, !.via = "route"],
                   ValidationFailed)
         /\ UNCHANGED <<boot, users, catalog, lists, cache, cacheOn, now>>

\* DELETE /items/:contentId: controller.removeFromMyList
DeleteItem(p, u, contentId) == RemoveFromMyList(p, u, contentId[1])

\* GET /items: validate(listMyItemsQuerySchema, req.query) with its
\* defaults, then controller.getMyList
GetItems(p, u, page, limit, contentType) ==
    IF listMyItemsQueryValid(page, limit, contentType)
    THEN GetMyList(p, u,
                   IF page = Absent THEN 1 ELSE ToNumber(page),
                   IF limit = Absent THEN 10 ELSE ToNumber(limit),
                   IF contentType = Absent THEN NoFilter ELSE contentType[1])
    ELSE /\ pc[p] = "idle"
         /\ Finish(p, [Idle EXCEPT !.op = "get", !.userId = u,
                                   !.details = TRUE, !.via = "route"],
                   ValidationFailed)
         /\ UNCHANGED <<boot, users, catalog, lists, cache, cacheOn, now>>

\* addToMyList is called and the user lookup or the content lookup throws
ServiceLookupFails(p, u, c, t) ==
    /\ pc[p] = "idle"
    /\ Finish(p, [Idle EXCEPT !.op = "add", !.userId = u, !.contentId = c,
                              !.contentType = t, !.err = StoreError],
              StoreError)
    /\ UNCHANGED <<boot, users, catalog, lists, cache, cacheOn, now>>

\* removeFromMyList is called and removeItem throws
RemoveItemFails(p, u, c) ==
    /\ pc[p] = "idle"
    /\ Finish(p, [Idle EXCEPT !.op = "remove", !.userId = u, !.contentId = c,
                              !.err = StoreError],
              StoreError)
    /\ UNCHANGED <<boot, users, catalog, lists, cache, cacheOn, now>>

\* the duplicate check of addToMyList, or getItemsPaginated or
\* findContentsByIds of getMyList, throws
StoreReadFails(p) ==
    /\ pc[p] \in {"add_itemExists", "get_store"}
    /\ Finish(p, [call[p] EXCEPT !.err = StoreError], StoreError)
    /\ UNCHANGED <<boot, users, catalog, lists, cache, cacheOn, now>>

----------------------------------------------------------------------------
(* Startup: CacheService.initialize over CacheServiceFactory.getInstance.  *)

\* the state after a startup with REDIS_ENABLED unset; instance "none" is
\* a CacheService whose cache is null
Booted(on) ==
    [phase |-> "done", enabled |-> FALSE, attempt |-> "none",
     isConnected |-> FALSE, instance |-> IF on THEN "memory" ELSE "none"]

\* a variant of the catch of RedisCacheService.connect that rethrows
ConnectErrorRethrown(rejected) == rejected

\* catch of RedisCacheService.connect: the error is logged, isConnected is
\* set to false and nothing is thrown
ConnectErrorThrown(rejected) == FALSE

\* getInstance is called: without REDIS_ENABLED it creates the in-memory
\* cache at once, with it it creates the client and awaits connect()
GetInstance ==
    /\ boot.phase = "init"
    /\ IF boot.enabled
       THEN /\ boot' = [boot EXCEPT !.phase = "connect"]
            /\ UNCHANGED cacheOn
       ELSE /\ boot' = [boot EXCEPT !.phase = "done", !.instance = "memory"]
            /\ cacheOn' = TRUE
    /\ UNCHANGED <<users, catalog, lists, cache, now, pc, call, ret>>

\* client.connect() resolves; the 'ready' handler has set isConnected, and
\* an 'error' or 'end' event may have cleared it again
ConnectResolves(stillConnected) ==
    /\ boot.phase = "connect"
    /\ boot' = [boot EXCEPT !.phase = "check", !.attempt = "ready",
                            !.isConnected = stillConnected]
    /\ UNCHANGED <<users, catalog, lists, cache, cacheOn, now, pc, call, ret>>

\* createClient or client.connect() throws: the catch of connect(), and if
\* that rethrew the catch of CacheService.initialize (cache = null)
ConnectRejects ==
    /\ boot.phase = "connect"
    /\ IF ConnectErrorThrown(TRUE)
       THEN boot' = [boot EXCEPT !.phase = "done", !.attempt = "failed",
                                 !.isConnected = FALSE]
       ELSE boot' = [boot EXCEPT !.phase = "check", !.attempt = "failed",
                                 !.isConnected = FALSE]
    /\ UNCHANGED <<users, catalog, lists, cache, cacheOn, now, pc, call, ret>>

\* getInstance after connect(): the Redis cache if it is connected, else
\* the in-memory cache; initialize stores the instance
InstanceChosen ==
    /\ boot.phase = "check"
    /\ boot' = [boot EXCEPT !.phase = "done",
                            !.instance = IF boot.isConnected THEN "redis"
                                         ELSE "memory"]
    /\ cacheOn' = TRUE
    /\ UNCHANGED <<users, catalog, lists, cache, now, pc, call, ret>>

----------------------------------------------------------------------------
(* Startup with several callers: getCacheServiceInstance,                  *)
(* ServiceFactory.getMyListService and ServiceFactory.getCacheService may  *)
(* be entered again while an earlier call is suspended at an await.  Here  *)
(* boot also holds the objects and the module-level references:            *)
(*   cacheServices        the CacheService objects created so far, each    *)
(*                        with its cache field (0 is null) and the state   *)
(*                        of its initialize()                              *)
(*   backings             the ICacheService objects created so far         *)
(*   factoryInstance      CacheServiceFactory.instance                     *)
(*   cacheServiceInstance the singleton of CacheService.ts                 *)
(*   myListServices       the MyListService objects, each with the         *)
(*                        CacheService it was constructed with             *)
(*   myListService, cacheService   the statics of ServiceFactory           *)
(*   starters             the position of each caller                      *)

NumStarters == 2
Starters == 1..NumStarters
StarterKinds == {"getCacheServiceInstance", "getMyListService", "getCacheService"}

IdleStarter == [at |-> "idle", kind |-> "none", waits |-> 0, ref |-> 0]

\* a variant of line 138 that does not keep the object it creates in the
\* module-level variable before the await
cacheServiceInstanceUnkept(current, created) == current

\* getCacheServiceInstance line 138: cacheServiceInstance = new
\* CacheService(), assigned before the await of initialize()
cacheServiceInstanceKept(current, created) == created

\* the synchronous part of CacheServiceFactory.getInstance for a new
\* CacheService: the instance that is there, or the in-memory cache when
\* Redis is not enabled, or a RedisCacheService whose connect() is awaited
EnterGetInstance(b) ==
    LET i == Len(b.cacheServices) + 1
    IN  IF b.factoryInstance # 0
        THEN [b EXCEPT !.cacheServices =
                 Append(@, [cache |-> 0, phase |-> "got",
                            isConnected |-> FALSE,
                            result |-> b.factoryInstance])]
        ELSE IF b.enabled
        THEN [b EXCEPT !.cacheServices =
                 Append(@, [cache |-> 0, phase |-> "connect",
                            isConnected |-> FALSE, result |-> 0])]
        ELSE [b EXCEPT !.backings = Append(@, "memory"),
                       !.factoryInstance = Len(b.backings) + 1,
                       !.cacheServices =
                           Append(@, [cache |-> 0, phase |-> "got",
                                      isConnected |-> FALSE,
                                      result |-> Len(b.backings) + 1])]

\* the synchronous part of getCacheServiceInstance (lines 136-139): with no
\* singleton a CacheService is created, kept, and its initialize() begun
EnterGetCacheServiceInstance(b) ==
    IF b.cacheServiceInstance # 0
    THEN b
    ELSE LET created == Len(b.cacheServices) + 1
         IN  [EnterGetInstance(b) EXCEPT
                 !.cacheServiceInstance = cacheServiceInstanceKept(@, created)]

\* what the caller of getCacheServiceInstance waits for: the initialize()
\* of the object it created, or nothing
AwaitedBy(b) ==
    IF b.cacheServiceInstance # 0 THEN 0 ELSE Len(b.cacheServices) + 1

\* a caller enters getCacheServiceInstance (initializeApp)
CallGetCacheServiceInstance(s) ==
    /\ boot.starters[s].at = "idle"
    /\ boot' = [EnterGetCacheServiceInstance(boot) EXCEPT
                   !.starters[s] = [at |-> "await", waits |-> AwaitedBy(boot),
                                    kind |-> "getCacheServiceInstance",
                                    ref |-> 0]]
    /\ UNCHANGED <<users, catalog, lists, cache, cacheOn, now, pc, call, ret>>

\* a caller enters ServiceFactory.getMyListService (getController of the
\* routes): the service that is there, or the await of
\* getCacheServiceInstance()
CallGetMyListService(s) ==
    /\ boot.starters[s].at = "idle"
    /\ IF boot.myListService # 0
       THEN boot' = [boot EXCEPT
                        !.starters[s] = [at |-> "done", waits |-> 0,
                                         kind |-> "getMyListService",
                                         ref |-> boot.myListService]]
       ELSE boot' = [EnterGetCacheServiceInstance(boot) EXCEPT
                        !.starters[s] = [at |-> "await",
                                         waits |-> AwaitedBy(boot),
                                         kind |-> "getMyListService",
                                         ref |-> 0]]
    /\ UNCHANGED <<users, catalog, lists, cache, cacheOn, now, pc, call, ret>>

\* a caller enters ServiceFactory.getCacheService
CallFactoryGetCacheService(s) ==
    /\ boot.starters[s].at = "idle"
    /\ IF boot.cacheService # 0
       THEN boot' = [boot EXCEPT
                        !.starters[s] = [at |-> "done", waits |-> 0,
                                         kind |-> "getCacheService",
                                         ref |-> boot.cacheService]]
       ELSE boot' = [EnterGetCacheServiceInstance(boot) EXCEPT
                        !.starters[s] = [at |-> "await",
                                         waits |-> AwaitedBy(boot),
                                         kind |-> "getCacheService",
                                         ref |-> 0]]
    /\ UNCHANGED <<users, catalog, lists, cache, cacheOn, now, pc, call, ret>>

\* client.connect() of the RedisCacheService of one getInstance settles:
\* it resolves with isConnected as the events left it, or it rejects and
\* the catch of connect() clears isConnected
StartupConnectSettles(i, resolved, stillConnected) ==
    /\ i \in DOMAIN boot.cacheServices
    /\ boot.cacheServices[i].phase = "connect"
    /\ boot' = [boot EXCEPT
                   !.cacheServices[i].phase =
                       IF ~resolved /\ ConnectErrorThrown(TRUE)
                       THEN "stored" ELSE "check",
                   !.cacheServices[i].isConnected = resolved /\ stillConnected,
                   !.attempt = IF resolved THEN "ready" ELSE "failed",
                   !.isConnected = resolved /\ stillConnected]
    /\ UNCHANGED <<users, catalog, lists, cache, cacheOn, now, pc, call, ret>>

\* getInstance after connect() (env.ts 293-302): the connected Redis cache
\* or a new in-memory cache becomes CacheServiceFactory.instance
StartupInstanceChosen(i) ==
    /\ i \in DOMAIN boot.cacheServices
    /\ boot.cacheServices[i].phase = "check"
    /\ boot' = [boot EXCEPT
                   !.backings = Append(@, IF boot.cacheServices[i].isConnected
                                          THEN "redis" ELSE "memory"),
                   !.factoryInstance = Len(boot.backings) + 1,
                   !.cacheServices[i].phase = "got",
                   !.cacheServices[i].result = Len(boot.backings) + 1]
    /\ UNCHANGED <<users, catalog, lists, cache, cacheOn, now, pc, call, ret>>

\* CacheService.initialize resumes: this.cache = the instance it was given
StartupInitializeStores(i) ==
    /\ i \in DOMAIN boot.cacheServices
    /\ boot.cacheServices[i].phase = "got"
    /\ boot' = [boot EXCEPT
                   !.cacheServices[i].phase = "stored",
                   !.cacheServices[i].cache = boot.cacheServices[i].result,
                   !.phase = "done",
                   !.instance = boot.backings[boot.cacheServices[i].result]]
    /\ cacheOn' = TRUE
    /\ UNCHANGED <<users, catalog, lists, cache, now, pc, call, ret>>

\* a suspended caller resumes: getCacheServiceInstance returns the
\* module-level variable (line 141); getMyListService constructs the
\* MyListService around it and keeps it (181-188); getCacheService keeps it
StartupCallReturns(s) ==
    /\ boot.starters[s].at = "await"
    /\ IF boot.starters[s].waits = 0
       THEN TRUE
       ELSE boot.cacheServices[boot.starters[s].waits].phase = "stored"
    /\ LET got == boot.cacheServiceInstance
           k == boot.starters[s].kind
       IN  boot' =
             IF k = "getMyListService"
             THEN [boot EXCEPT
                      !.myListServices = Append(@, [cacheService |-> got]),
                      !.myListService = Len(boot.myListServices) + 1,
                      !.starters[s].at = "done",
                      !.starters[s].ref = Len(boot.myListServices) + 1]
             ELSE IF k = "getCacheService"
             THEN [boot EXCEPT !.cacheService = got,
                               !.starters[s].at = "done",
                               !.starters[s].ref = got]
             ELSE [boot EXCEPT !.starters[s].at = "done",
                               !.starters[s].ref = got]
    /\ UNCHANGED <<users, catalog, lists, cache, cacheOn, now, pc, call, ret>>

\* a controller exists once getMyListService has returned a service
ControllerReady == Len(boot.myListServices) > 0

----------------------------------------------------------------------------
(* Specifications.                                                         *)

InitStore ==
    /\ users = UserDirectory
    /\ catalog = [t \in ContentTypes |->
                     IF t = "Movie" THEN MovieCatalog ELSE TVShowCatalog]
    /\ lists = [u \in UserIds |-> NoList]
    /\ cache = <<>>
    /\ now = 0
    /\ pc = [p \in Procs |-> "idle"]
    /\ call = [p \in Procs |-> Idle]
    /\ ret = Idle

\* Spec: concurrent additions and removals on the list of one user
Init == InitStore /\ cacheOn = TRUE /\ boot = Booted(cacheOn)

SpecContentIds == {"c1", "c2"}

Next ==
    \/ \E p \in Procs, c \in SpecContentIds, t \in ContentTypes :
           AddToMyList(p, UserA, c, t)
    \/ \E p \in Procs, c \in SpecContentIds :
           RemoveFromMyList(p, UserA, c)
    \/ \E p \in Procs :
           \/ ServiceItemExists(p)
           \/ RepoItemExists(p)
           \/ RepoFindOneAndUpdate(p)
           \/ RepoUpsertInsert(p)
           \/ RepoUpdateFails(p)
           \/ RepoCatch(p)
           \/ InvalidateAndReturn(p)

Spec == Init /\ [][Next]_vars

\* SpecFair: Spec where the event loop runs every pending continuation, so
\* each request in progress takes its next step
Continue(p) ==
    \/ ServiceItemExists(p)
    \/ RepoItemExists(p)
    \/ RepoFindOneAndUpdate(p)
    \/ RepoUpsertInsert(p)
    \/ RepoUpdateFails(p)
    \/ RepoCatch(p)
    \/ InvalidateAndReturn(p)

SpecFair == Init /\ [][Next]_vars /\ \A p \in Procs : WF_vars(Continue(p))

\* SpecSeq: one request at a time, of two users whose ids differ in a
\* character that is special in a regular expression
NextSeq ==
    \/ \E u \in UserIds, c \in SpecContentIds, t \in ContentTypes :
           AddToMyList(1, u, c, t)
    \/ \E u \in UserDirectory, c \in SpecContentIds :
           RemoveFromMyList(1, u, c)
    \/ \E u \in UserDirectory :
           GetMyList(1, u, 1, MaxLimit, NoFilter)
    \/ ServiceItemExists(1)
    \/ RepoItemExists(1)
    \/ RepoFindOneAndUpdate(1)
    \/ RepoUpsertInsert(1)
    \/ RepoUpdateFails(1)
    \/ RepoCatch(1)
    \/ InvalidateAndReturn(1)
    \/ GetFromStore(1)
    \/ GetSetCache(1)

SpecSeq == Init /\ [][NextSeq]_vars

\* SpecPage: one request at a time of one user, without a cache, over every
\* page, limit and filter, with a clock that advances between requests
InitPage == InitStore /\ cacheOn = FALSE /\ boot = Booted(cacheOn)

NextPage ==
    \/ \E c \in ContentIds, t \in ContentTypes : AddToMyList(1, UserA, c, t)
    \/ \E c \in ContentIds : RemoveFromMyList(1, UserA, c)
    \/ \E page \in 1..MaxPage, limit \in 1..MaxLimit,
          filter \in ContentTypes \cup {NoFilter} :
           GetMyList(1, UserA, page, limit, filter)
    \/ ServiceItemExists(1)
    \/ RepoItemExists(1)
    \/ RepoFindOneAndUpdate(1)
    \/ RepoUpsertInsert(1)
    \/ InvalidateAndReturn(1)
    \/ GetFromStore(1)
    \/ GetSetCache(1)
    \/ Tick

SpecPage == InitPage /\ [][NextPage]_vars

\* SpecRace: one request slot adds and removes, the others read page 1 of
\* the same user through the cache
Readers == Procs \ {1}

NextRace ==
    \/ \E c \in SpecContentIds : AddToMyList(1, UserA, c, "Movie")
    \/ \E c \in SpecContentIds : RemoveFromMyList(1, UserA, c)
    \/ \E p \in Readers : GetMyList(p, UserA, 1, MaxLimit, NoFilter)
    \/ \E p \in Procs :
           \/ ServiceItemExists(p)
           \/ RepoItemExists(p)
           \/ RepoFindOneAndUpdate(p)
           \/ RepoUpsertInsert(p)
           \/ InvalidateAndReturn(p)
           \/ GetFromStore(p)
           \/ GetSetCache(p)

SpecRace == Init /\ [][NextRace]_vars

\* SpecFail: one request at a time on the list of one user, with a backing
\* cache whose operations can throw and whose connection comes and goes
InitFail == InitStore /\ cacheOn \in BOOLEAN /\ boot = Booted(cacheOn)

NextFail ==
    \/ \E c \in SpecContentIds, t \in ContentTypes : AddToMyList(1, UserA, c, t)
    \/ \E c \in SpecContentIds : RemoveFromMyList(1, UserA, c)
    \/ GetMyList(1, UserA, 1, MaxLimit, NoFilter)
    \/ GetMyListCacheFails(1, UserA, 1, MaxLimit, NoFilter)
    \/ ServiceItemExists(1)
    \/ RepoItemExists(1)
    \/ RepoFindOneAndUpdate(1)
    \/ RepoUpsertInsert(1)
    \/ InvalidateAndReturn(1)
    \/ InvalidateFails(1)
    \/ GetFromStore(1)
    \/ GetSetCache(1)
    \/ GetSetCacheFails(1)
    \/ CacheConnectionChanges

SpecFail == InitFail /\ [][NextFail]_vars

\* SpecTtl: one request at a time on the list of one user, with a clock
\* that runs past the time to live and invalidations that can be missed
NextTtl ==
    \/ \E c \in SpecContentIds : AddToMyList(1, UserA, c, "Movie")
    \/ \E c \in SpecContentIds : RemoveFromMyList(1, UserA, c)
    \/ GetMyList(1, UserA, 1, MaxLimit, NoFilter)
    \/ ServiceItemExists(1)
    \/ RepoItemExists(1)
    \/ RepoFindOneAndUpdate(1)
    \/ RepoUpsertInsert(1)
    \/ InvalidateAndReturn(1)
    \/ InvalidateFails(1)
    \/ GetFromStore(1)
    \/ GetSetCache(1)
    \/ Tick
    \/ TickTtl
    \/ SweepExpired

SpecTtl == Init /\ [][NextTtl]_vars

\* SpecDistinct: concurrent requests of one user, each request slot adding
\* and removing a contentId of its own, every update answered by the store
OwnContentId(p) == <<"c1", "c2", "c3">>[p]

NextDistinct ==
    \/ \E p \in Procs, t \in ContentTypes :
           /\ contentExists(OwnContentId(p), t)
           /\ AddToMyList(p, UserA, OwnContentId(p), t)
    \/ \E p \in Procs : RemoveFromMyList(p, UserA, OwnContentId(p))
    \/ \E p \in Procs :
           \/ ServiceItemExists(p)
           \/ RepoItemExists(p)
           \/ RepoFindOneAndUpdate(p)
           \/ RepoUpsertInsert(p)
           \/ RepoCatch(p)
           \/ InvalidateAndReturn(p)

SpecDistinct == Init /\ [][NextDistinct]_vars

\* SpecQuiet: one request at a time on the list of one user; the list is
\* mutated only during the first time to live, invalidations can be missed,
\* the clock keeps running and requests keep being served
Serve ==
    \/ \E c \in SpecContentIds :
           now < TtlTicks /\ AddToMyList(1, UserA, c, "Movie")
    \/ \E c \in SpecContentIds :
           now < TtlTicks /\ RemoveFromMyList(1, UserA, c)
    \/ GetMyList(1, UserA, 1, MaxLimit, NoFilter)
    \/ ServiceItemExists(1)
    \/ RepoItemExists(1)
    \/ RepoFindOneAndUpdate(1)
    \/ RepoUpsertInsert(1)
    \/ InvalidateAndReturn(1)
    \/ InvalidateFails(1)
    \/ GetFromStore(1)
    \/ GetSetCache(1)

NextQuiet ==
    \/ Serve
    \/ TickTtl
    \/ SweepExpired

SpecQuiet ==
    Init /\ [][NextQuiet]_vars /\ WF_vars(TickTtl) /\ WF_vars(Serve)

\* SpecCatalog: one request at a time of one user, without a cache, while
\* content items disappear from the catalog
NextCatalog ==
    \/ \E c \in SpecContentIds, t \in ContentTypes : AddToMyList(1, UserA, c, t)
    \/ \E c \in SpecContentIds : RemoveFromMyList(1, UserA, c)
    \/ \E limit \in 1..MaxLimit, filter \in ContentTypes \cup {NoFilter} :
           GetMyList(1, UserA, 1, limit, filter)
    \/ \E c \in SpecContentIds, t \in ContentTypes : ContentDeleted(c, t)
    \/ ServiceItemExists(1)
    \/ RepoItemExists(1)
    \/ RepoFindOneAndUpdate(1)
    \/ RepoUpsertInsert(1)
    \/ InvalidateAndReturn(1)
    \/ GetFromStore(1)
    \/ GetSetCache(1)

SpecCatalog == InitPage /\ [][NextCatalog]_vars

\* One caller at a time, for a user with an account and for one without,
\* with content that is in the catalog and content that is not, while the
\* clock advances.
ErrUsers == {UserA, UserX}

NextErr ==
    \/ \E u \in ErrUsers, c \in SpecContentIds, t \in ContentTypes :
           AddToMyList(1, u, c, t)
    \/ \E u \in ErrUsers, c \in SpecContentIds : RemoveFromMyList(1, u, c)
    \/ GetMyList(1, UserA, 1, MaxLimit, NoFilter)
    \/ ServiceItemExists(1)
    \/ RepoItemExists(1)
    \/ RepoFindOneAndUpdate(1)
    \/ RepoUpsertInsert(1)
    \/ InvalidateAndReturn(1)
    \/ GetFromStore(1)
    \/ GetSetCache(1)
    \/ Tick

SpecErr == Init /\ [][NextErr]_vars

\* Users whose ids hold the separator and digits of the cache key: one
\* caller adds and lists for them, through the cache, with and without a
\* filter.
KeyUsers == {<<"u">>, <<"u", ":", "1">>}
KeyFilters == {NoFilter, "Movie"}

InitKeys ==
    /\ users = KeyUsers
    /\ catalog = [t \in ContentTypes |->
                     IF t = "Movie" THEN MovieCatalog ELSE TVShowCatalog]
    /\ lists = [u \in KeyUsers |-> NoList]
    /\ cache = <<>>
    /\ now = 0
    /\ pc = [p \in Procs |-> "idle"]
    /\ call = [p \in Procs |-> Idle]
    /\ ret = Idle
    /\ cacheOn = TRUE
    /\ boot = Booted(cacheOn)

NextKeys ==
    \/ \E u \in KeyUsers : AddToMyList(1, u, "c1", "Movie")
    \/ \E u \in KeyUsers, filter \in KeyFilters :
           GetMyList(1, u, 1, 1, filter)
    \/ ServiceItemExists(1)
    \/ RepoItemExists(1)
    \/ RepoFindOneAndUpdate(1)
    \/ RepoUpsertInsert(1)
    \/ InvalidateAndReturn(1)
    \/ GetFromStore(1)
    \/ GetSetCache(1)

SpecKeys == InitKeys /\ [][NextKeys]_vars

\* One caller adds, removes and lists pages of several sizes through the
\* cache while cached pages expire.
NextFrame ==
    \/ AddToMyList(1, UserA, "c1", "Movie")
    \/ RemoveFromMyList(1, UserA, "c1")
    \/ \E limit \in 1..MaxLimit : GetMyList(1, UserA, 1, limit, NoFilter)
    \/ ServiceItemExists(1)
    \/ RepoItemExists(1)
    \/ RepoFindOneAndUpdate(1)
    \/ RepoUpsertInsert(1)
    \/ InvalidateAndReturn(1)
    \/ GetFromStore(1)
    \/ GetSetCache(1)
    \/ Tick
    \/ TickTtl

SpecFrame == Init /\ [][NextFrame]_vars

\* One caller adds, removes and lists through the cache, which is the Redis
\* cache or the in-memory cache, as start-up has chosen.
InitBacking ==
    /\ InitStore
    /\ cacheOn = TRUE
    /\ \E chosen \in {"redis", "memory"} :
           boot = [Booted(cacheOn) EXCEPT !.enabled = (chosen = "redis"),
                                          !.isConnected = (chosen = "redis"),
                                          !.instance = chosen]

NextBacking ==
    \/ \E c \in SpecContentIds : AddToMyList(1, UserA, c, "Movie")
    \/ \E c \in SpecContentIds : RemoveFromMyList(1, UserA, c)
    \/ \E limit \in 1..MaxLimit : GetMyList(1, UserA, 1, limit, NoFilter)
    \/ ServiceItemExists(1)
    \/ RepoItemExists(1)
    \/ RepoFindOneAndUpdate(1)
    \/ RepoUpsertInsert(1)
    \/ InvalidateAndReturn(1)
    \/ GetFromStore(1)
    \/ GetSetCache(1)
    \/ Tick

SpecBacking == InitBacking /\ [][NextBacking]_vars

\* One caller adds and removes while the user's document and the content
\* documents may be deleted from their collections.
NextGone ==
    \/ \E c \in SpecContentIds, t \in ContentTypes : AddToMyList(1, UserA, c, t)
    \/ \E c \in SpecContentIds : RemoveFromMyList(1, UserA, c)
    \/ UserDeleted(UserA)
    \/ \E c \in SpecContentIds, t \in ContentTypes : ContentDeleted(c, t)
    \/ ServiceItemExists(1)
    \/ RepoItemExists(1)
    \/ RepoFindOneAndUpdate(1)
    \/ RepoUpsertInsert(1)
    \/ InvalidateAndReturn(1)

SpecGone == InitPage /\ [][NextGone]_vars

\* SpecBoot: the startup with or without REDIS_ENABLED, then one request
\* at a time on the list of one user through the cache that was chosen
InitBoot ==
    /\ InitStore
    /\ cacheOn = FALSE
    /\ boot \in {[phase |-> "init", enabled |-> e, attempt |-> "none",
                   isConnected |-> FALSE, instance |-> "none"] : e \in BOOLEAN}

NextBoot ==
    \/ GetInstance
    \/ \E stillConnected \in BOOLEAN : ConnectResolves(stillConnected)
    \/ ConnectRejects
    \/ InstanceChosen
    \/ /\ boot.phase = "done"
       /\ \/ \E c \in SpecContentIds : AddToMyList(1, UserA, c, "Movie")
          \/ \E c \in SpecContentIds : RemoveFromMyList(1, UserA, c)
          \/ GetMyList(1, UserA, 1, MaxLimit, NoFilter)
          \/ ServiceItemExists(1)
          \/ RepoItemExists(1)
          \/ RepoFindOneAndUpdate(1)
          \/ RepoUpsertInsert(1)
          \/ InvalidateAndReturn(1)
          \/ GetFromStore(1)
          \/ GetSetCache(1)

SpecBoot == InitBoot /\ [][NextBoot]_vars

\* SpecStart: the startup entered by several callers at once, with or
\* without REDIS_ENABLED, and the requests of one user through a
\* controller as soon as one has its service
InitStart ==
    /\ InitStore
    /\ cacheOn = FALSE
    /\ boot \in {[phase |-> "init", enabled |-> e, attempt |-> "none",
                   isConnected |-> FALSE, instance |-> "none",
                   cacheServices |-> <<>>, backings |-> <<>>,
                   factoryInstance |-> 0, cacheServiceInstance |-> 0,
                   myListServices |-> <<>>, myListService |-> 0,
                   cacheService |-> 0,
                   starters |-> [s \in Starters |-> IdleStarter]]
                     : e \in BOOLEAN}

NextStart ==
    \/ \E s \in Starters : CallGetCacheServiceInstance(s)
    \/ \E s \in Starters : CallGetMyListService(s)
    \/ \E s \in Starters : CallFactoryGetCacheService(s)
    \/ \E i \in 1..NumStarters, resolved, stillConnected \in BOOLEAN :
           StartupConnectSettles(i, resolved, stillConnected)
    \/ \E i \in 1..NumStarters : StartupInstanceChosen(i)
    \/ \E i \in 1..NumStarters : StartupInitializeStores(i)
    \/ \E s \in Starters : StartupCallReturns(s)
    \/ /\ ControllerReady
       /\ \/ AddToMyList(1, UserA, "c1", "Movie")
          \/ RemoveFromMyList(1, UserA, "c1")
          \/ GetMyList(1, UserA, 1, MaxLimit, NoFilter)
          \/ ServiceItemExists(1)
          \/ RepoItemExists(1)
          \/ RepoFindOneAndUpdate(1)
          \/ RepoUpsertInsert(1)
          \/ InvalidateAndReturn(1)
          \/ GetFromStore(1)
          \/ GetSetCache(1)

SpecStart == InitStart /\ [][NextStart]_vars

\* SpecHttp: one HTTP request at a time, without a cache, with parameters
\* that pass and parameters that fail the validation, on a store whose
\* reads and writes can fail
HttpUsers == {UserA, UserX}
HttpContentIds == {Absent, <<>>, <<"c1">>, <<"c3">>}
HttpContentTypes == {Absent, <<"Movie">>, <<"TVShow">>, <<"InvalidType">>}
HttpPages == {Absent, <<"0">>, <<"1">>, <<"x">>}
HttpLimits == {Absent, <<"0">>, <<"2">>, <<"1", "0", "1">>, <<"x">>}

NextHttp ==
    \/ \E u \in HttpUsers, c \in HttpContentIds, t \in HttpContentTypes :
           PostItems(1, u, c, t)
    \/ \E u \in HttpUsers, c \in {<<"c1">>, <<"c3">>} : DeleteItem(1, u, c)
    \/ \E u \in HttpUsers, page \in HttpPages, limit \in HttpLimits,
          t \in HttpContentTypes \ {<<"TVShow">>} :
           GetItems(1, u, page, limit, t)
    \/ \E c \in {"c1", "c3"} : ServiceLookupFails(1, UserA, c, "Movie")
    \/ \E c \in {"c1", "c3"} : RemoveItemFails(1, UserA, c)
    \/ StoreReadFails(1)
    \/ ServiceItemExists(1)
    \/ RepoItemExists(1)
    \/ RepoFindOneAndUpdate(1)
    \/ RepoUpsertInsert(1)
    \/ RepoUpdateFails(1)
    \/ RepoCatch(1)
    \/ InvalidateAndReturn(1)
    \/ GetFromStore(1)
    \/ GetSetCache(1)

SpecHttp == InitPage /\ [][NextHttp]_vars

----------------------------------------------------------------------------
(* Properties.                                                             *)

\* C1: in every reachable state, under every interleaving of additions and
\* removals, no stored list holds two entries with the same contentId,
\* whatever their contentType.
ContentIdUnique ==
    \A u \in UserIds :
        \A i, j \in 1..Len(lists[u].items) :
            lists[u].items[i].contentId = lists[u].items[j].contentId => i = j

\* two additions of one content id raced: the conditional write of the later
\* one matched no document and ended in the duplicate-key error, and the list
\* holds the content id
ContentIdUniqueWitness ==
    \E p \in Procs :
        /\ pc[p] = "repo_catch"
        /\ call[p].err = "MongoServerError: E11000"
        /\ \E i \in 1..Len(lists[call[p].userId].items) :
               lists[call[p].userId].items[i].contentId = call[p].contentId

\* C2: of concurrent additions of one content id to one list (user and
\* content exist), the one that succeeds is the only one, and every other one
\* fails with DuplicateItemError: an addition that the store did not fail for
\* a reason of its own ends in success or in one of the three typed errors.
AddLoserGetsDuplicateItemError ==
    (/\ ret.op = "add"
     /\ ret.err # "MongoServerError"
     /\ ret.outcome \notin {"success", "UserNotFoundError", "ContentNotFoundError"})
        => ret.outcome = "DuplicateItemError"

\* C3: removeFromMyList(u, c) succeeds exactly when c was in u's list
\* immediately before the store operation, and fails with ItemNotFoundError
\* otherwise.
RemoveSucceedsIffMember ==
    [][/\ \A p \in Procs :
              (pc[p] = "idle" /\ pc'[p] = "remove_invalidate")
                  => \E i \in 1..Len(lists[call'[p].userId].items) :
                         lists[call'[p].userId].items[i].contentId
                             = call'[p].contentId
       /\ (pc' = pc /\ ret' # ret /\ ret'.op = "remove")
              => /\ ret'.outcome = "ItemNotFoundError"
                 /\ \A i \in 1..Len(lists[ret'.userId].items) :
                        lists[ret'.userId].items[i].contentId # ret'.contentId
      ]_vars

\* C4: a page cached before a successful addition or removal of its user is
\* not returned to a getMyList for the same key that starts after the
\* mutation has returned.
NoStaleHit == ~(ret.op = "get" /\ ret.fromCache /\ ret.staleHit)

\* C5: after addToMyList(u, c, t) has succeeded, a following getMyList(u, 1, N)
\* without a filter and with N at least the size of the list returns a page
\* with an entry for c: with no request in flight, the page the last
\* getMyList returned has an entry for every content id of the stored list.
AddThenGetIncludes ==
    (/\ \A p \in Procs : pc[p] = "idle"
     /\ ret.op = "get"
     /\ ret.page = 1
     /\ ret.contentType = NoFilter
     /\ ret.limit >= Len(lists[ret.userId].items))
        => \A i \in 1..Len(lists[ret.userId].items) :
               \E k \in 1..Len(ret.response.data) :
                   ret.response.data[k].contentId
                       = lists[ret.userId].items[i].contentId

\* C6: every getMyList returns with the cache what it returns without: with
\* no request in flight, the response of the last getMyList is the one
\* computed from the store, which is what the service without a cache
\* returns after the same additions and removals.
CacheTransparent ==
    (/\ \A p \in Procs : pc[p] = "idle"
     /\ ret.op = "get")
        => ret.response = ComputeResponse(lists, ret.userId, ret.page,
                                          ret.limit, ret.contentType)

\* C7: addToMyList checks user, then content, then membership: it fails with
\* UserNotFoundError whenever the user does not exist, with
\* ContentNotFoundError whenever the user exists and the content does not,
\* and with DuplicateItemError only when both exist.
PreconditionOrder ==
    ret.op = "add" =>
        /\ ~exists(ret.userId) => ret.outcome = "UserNotFoundError"
        /\ (exists(ret.userId) /\ ~contentExists(ret.contentId, ret.contentType))
               => ret.outcome = "ContentNotFoundError"
        /\ ret.outcome = "DuplicateItemError"
               => (exists(ret.userId)
                   /\ contentExists(ret.contentId, ret.contentType))

\* an addition failed with ContentNotFoundError although its content id is
\* in the list of the user
PreconditionOrderWitness ==
    /\ ret.op = "add"
    /\ ret.outcome = "ContentNotFoundError"
    /\ \E i \in 1..Len(lists[ret.userId].items) :
           lists[ret.userId].items[i].contentId = ret.contentId

\* C8: addToMyList(u, c, t) for a content id that is in u's list when the
\* service looks it up (user and content exist) fails with
\* DuplicateItemError, also when the stored entry has another contentType.
DuplicateWhateverType ==
    [][\A p \in Procs :
          (/\ pc[p] = "add_itemExists"
           /\ pc'[p] # "add_itemExists"
           /\ \E i \in 1..Len(lists[call[p].userId].items) :
                  lists[call[p].userId].items[i].contentId = call[p].contentId)
              => /\ pc'[p] = "idle"
                 /\ ret'.op = "add"
                 /\ ret'.contentId = call[p].contentId
                 /\ ret'.outcome = "DuplicateItemError"
      ]_vars

\* an addition failed with DuplicateItemError on an entry stored with the
\* other contentType
DuplicateWhateverTypeWitness ==
    /\ ret.op = "add"
    /\ ret.outcome = "DuplicateItemError"
    /\ \E i \in 1..Len(lists[ret.userId].items) :
           /\ lists[ret.userId].items[i].contentId = ret.contentId
           /\ lists[ret.userId].items[i].contentType # ret.contentType

\* C9: without a filter, for every page and limit, the page getMyList
\* assembles from the store reports total = the number of stored entries,
\* totalPages = ceil(total / limit), hasNextPage = (page < totalPages),
\* hasPreviousPage = (page > 1), and holds at most limit items.
UnfilteredPagination ==
    (/\ \A p \in Procs : pc[p] = "idle"
     /\ ret.op = "get"
     /\ ~ret.fromCache
     /\ ret.contentType = NoFilter)
        => LET pg == ret.response.pagination
           IN  /\ pg.total = Len(lists[ret.userId].items)
               /\ pg.totalPages * ret.limit >= pg.total
               /\ (pg.totalPages - 1) * ret.limit < pg.total
               /\ pg.hasNextPage = (ret.page < pg.totalPages)
               /\ pg.hasPreviousPage = (ret.page > 1)
               /\ Len(ret.response.data) <= ret.limit

\* C10: getMyList for a user without a list, or with a list without entries,
\* is no error: page 1 comes back as data = [] with total = 0,
\* totalPages = 0, hasNextPage = false and hasPreviousPage = false.
EmptyListIsNoError ==
    (/\ \A p \in Procs : pc[p] = "idle"
     /\ ret.op = "get"
     /\ ~ret.fromCache
     /\ ret.page = 1
     /\ Len(lists[ret.userId].items) = 0)
        => /\ ret.outcome = "success"
           /\ ret.response.data = <<>>
           /\ ret.response.pagination.total = 0
           /\ ret.response.pagination.totalPages = 0
           /\ ~ret.response.pagination.hasNextPage
           /\ ~ret.response.pagination.hasPreviousPage

\* page 1 was asked for a user who has no list
EmptyListIsNoErrorWitness ==
    /\ \A p \in Procs : pc[p] = "idle"
    /\ ret.op = "get"
    /\ ret.page = 1
    /\ ~lists[ret.userId].exists
    /\ ret.response.data = <<>>

\* C11: with a contentType filter, every item of data has that contentType,
\* and pagination.total is the number of entries of the fetched unfiltered
\* page (the store's page for userId, page and limit) that match the filter,
\* with totalPages = ceil(total / limit), for every list, page and limit.
FilteredPageCounts ==
    (/\ \A p \in Procs : pc[p] = "idle"
     /\ ret.op = "get"
     /\ ~ret.fromCache
     /\ ret.contentType # NoFilter)
        => LET fetched == getItemsPaginated(lists, ret.userId, ret.page,
                                            ret.limit).items
               matching == Cardinality({i \in 1..Len(fetched) :
                               fetched[i].contentType = ret.contentType})
               pg == ret.response.pagination
           IN  /\ \A k \in 1..Len(ret.response.data) :
                      ret.response.data[k].contentType = ret.contentType
               /\ pg.total = matching
               /\ pg.totalPages * ret.limit >= pg.total
               /\ (pg.totalPages - 1) * ret.limit < pg.total

\* C12: the entries of a list are ordered by addedAt descending, entries of
\* equal addedAt in their insertion order, before the page is cut out, and
\* getMyList returns its data in that order: without a filter the k-th item
\* of page n is the entry that (n - 1) * limit + k - 1 entries precede; with
\* a filter the items are entries of that page, in the same order.
NewestFirstStable ==
    (/\ \A p \in Procs : pc[p] = "idle"
     /\ ret.op = "get"
     /\ ~ret.fromCache)
        => LET items == lists[ret.userId].items
               data == ret.response.data
               skip == (ret.page - 1) * ret.limit
               precedes(j, i) ==
                   \/ items[j].addedAt > items[i].addedAt
                   \/ items[j].addedAt = items[i].addedAt /\ j < i
               rank(i) == Cardinality({j \in 1..Len(items) : precedes(j, i)})
               pos(k) == CHOOSE i \in 1..Len(items) :
                             items[i].contentId = data[k].contentId
           IN  /\ \A k \in 1..Len(data) :
                      /\ \E i \in 1..Len(items) :
                             items[i].contentId = data[k].contentId
                      /\ items[pos(k)] = data[k]
                      /\ rank(pos(k)) >= skip
                      /\ rank(pos(k)) < skip + ret.limit
                      /\ ret.contentType = NoFilter
                             => rank(pos(k)) = skip + k - 1
               /\ \A k, l \in 1..Len(data) :
                      k < l => rank(pos(k)) < rank(pos(l))

\* a page of two entries added at the same time, in their insertion order,
\* of a list that also holds an older entry
NewestFirstStableWitness ==
    /\ \A p \in Procs : pc[p] = "idle"
    /\ ret.op = "get"
    /\ Len(ret.response.data) = 2
    /\ ret.response.data[1].addedAt = ret.response.data[2].addedAt
    /\ Len(lists[ret.userId].items) = 3
    /\ lists[ret.userId].items[1].addedAt < ret.response.data[1].addedAt
    /\ lists[ret.userId].items[2] = ret.response.data[1]
    /\ lists[ret.userId].items[3] = ret.response.data[2]

\* C13: within one addToMyList or removeFromMyList the store write comes
\* before the cache invalidation (the write is a step that leaves the entry
\* in the list, or out of it, and drops no cached page; the invalidation is
\* a later step that writes nothing to the store), and every cached page
\* was computed from the current list or an earlier one: a page that no
\* write has overtaken since it was read is the page of the current list.
WriteBeforeInvalidate ==
    [][/\ \A p \in Procs :
              (pc[p] # "add_invalidate" /\ pc'[p] = "add_invalidate")
                  => /\ \E i \in 1..Len(lists'[call[p].userId].items) :
                            lists'[call[p].userId].items[i].contentId
                                = call[p].contentId
                     /\ DOMAIN cache' = DOMAIN cache
       /\ \A p \in Procs :
              (pc[p] # "remove_invalidate" /\ pc'[p] = "remove_invalidate")
                  => /\ \A i \in 1..Len(lists'[call'[p].userId].items) :
                            lists'[call'[p].userId].items[i].contentId
                                # call'[p].contentId
                     /\ DOMAIN cache' = DOMAIN cache
       /\ \A p \in Procs :
              (pc[p] \in {"add_invalidate", "remove_invalidate"}
               /\ pc'[p] = "idle")
                  => \A u \in UserIds :
                         /\ lists'[u].exists = lists[u].exists
                         /\ lists'[u].items = lists[u].items
                         /\ lists'[u].docs = lists[u].docs
       /\ \A k \in DOMAIN cache' :
              ~cache'[k].behind
                  => \E filter \in ContentTypes \cup {NoFilter} :
                         LET v == cache'[k].value
                             u == cache'[k].owner
                         IN  /\ k = getListCacheKey(u, v.pagination.page,
                                        v.pagination.limit, filter)
                             /\ v = ComputeResponse(lists', u, v.pagination.page,
                                        v.pagination.limit, filter)
      ]_vars

\* old cache, new store: a mutation has written and not yet invalidated, and
\* a cached page of its user is not the page of the list any more
WriteBeforeInvalidateWitness ==
    \E p \in Procs :
        /\ pc[p] \in {"add_invalidate", "remove_invalidate"}
        /\ \E k \in DOMAIN cache :
               /\ cache[k].owner = call[p].userId
               /\ cache[k].behind
               /\ cache[k].value # ComputeResponse(lists, cache[k].owner,
                                       cache[k].value.pagination.page,
                                       cache[k].value.pagination.limit, NoFilter)

\* C14: a call during which a cache operation threw, or found the backing
\* cache absent or disconnected, returns what it returns with the cache
\* disabled: getMyList succeeds with the page computed from the store,
\* addToMyList succeeds with the entry stored, removeFromMyList succeeds
\* with the entry gone.
CacheFailureAbsorbed ==
    ((\A p \in Procs : pc[p] = "idle") /\ ret.cacheFailed)
        => /\ ret.outcome = "success"
           /\ ret.op = "get"
                  => /\ ~ret.fromCache
                     /\ ret.response = ComputeResponse(lists, ret.userId, ret.page,
                                           ret.limit, ret.contentType)
           /\ ret.op = "add"
                  => \E i \in 1..Len(lists[ret.userId].items) :
                         lists[ret.userId].items[i].contentId = ret.contentId
           /\ ret.op = "remove"
                  => \A i \in 1..Len(lists[ret.userId].items) :
                         lists[ret.userId].items[i].contentId # ret.contentId

\* a getMyList whose cache read and cache write both threw returned the
\* page of the store while the cache holds another page under its key
CacheFailureAbsorbedWitness ==
    /\ \A p \in Procs : pc[p] = "idle"
    /\ ret.op = "get"
    /\ ret.cacheFailed
    /\ cacheOn
    /\ ret.outcome = "success"
    /\ LET key == getListCacheKey(ret.userId, ret.page, ret.limit, ret.contentType)
       IN  /\ key \in DOMAIN cache
           /\ cache[key].value # ret.response

\* C15: every cached page expires 300 seconds after it was stored, and a
\* getMyList that answers from the cache returns a page stored at most 300
\* seconds earlier, whether or not an invalidation was missed.
TtlBoundsCachedPage ==
    [][/\ \A k \in DOMAIN cache' :
              cache'[k].expiry = cache'[k].cachedAt + 300 * 1000
       /\ \A p \in Procs :
              (pc[p] = "idle" /\ ret' # ret /\ ret'.op = "get" /\ ret'.fromCache)
                  => LET key == getListCacheKey(ret'.userId, ret'.page,
                                    ret'.limit, ret'.contentType)
                     IN  /\ key \in DOMAIN cache
                         /\ ret'.response = cache[key].value
                         /\ now - cache[key].cachedAt <= 300 * 1000
      ]_vars

\* a getMyList answered from the cache exactly 300 seconds after the page
\* was stored, with a page the store no longer has
TtlBoundsCachedPageWitness ==
    /\ \A p \in Procs : pc[p] = "idle"
    /\ ret.op = "get"
    /\ ret.fromCache
    /\ ret.response # ComputeResponse(lists, ret.userId, ret.page, ret.limit,
                                      ret.contentType)
    /\ LET key == getListCacheKey(ret.userId, ret.page, ret.limit, ret.contentType)
       IN  /\ key \in DOMAIN cache
           /\ now - cache[key].cachedAt = 300 * 1000

\* C16: there is at most one list aggregate per user at every moment, also
\* when first adds of the same user run concurrently; an aggregate appears
\* only at the write of an addToMyList of that user and holds the added
\* entry; it never disappears, whatever is removed; and when an addToMyList
\* has returned success its user has exactly one aggregate.
OneAggregatePerUser ==
    [][/\ \A u \in UserIds :
              /\ lists'[u].docs <= 1
              /\ lists'[u].exists <=> lists'[u].docs = 1
              /\ lists[u].exists => lists'[u].exists
              /\ (~lists[u].exists /\ lists'[u].exists)
                     => \E p \in Procs :
                            /\ pc[p] # "add_invalidate"
                            /\ pc'[p] = "add_invalidate"
                            /\ call[p].op = "add"
                            /\ call[p].userId = u
                            /\ Len(lists'[u].items) = 1
                            /\ lists'[u].items[1].contentId = call[p].contentId
       /\ (ret'.op = "add" /\ ret'.outcome = "success")
              => lists'[ret'.userId].docs = 1
      ]_vars

\* two first adds of one user ran concurrently: one created the aggregate,
\* the insert of the other was refused, and the aggregate has meanwhile
\* been emptied by a removal
OneAggregatePerUserWitness ==
    \E p \in Procs, u \in UserIds :
        /\ pc[p] = "repo_catch"
        /\ call[p].userId = u
        /\ call[p].err = "MongoServerError: E11000"
        /\ lists[u].docs = 1
        /\ lists[u].items = <<>>
        /\ ret.op = "remove"
        /\ ret.outcome = "success"

\* C17: when additions and removals of one contentId of one user run
\* concurrently every call returns, and the membership of the contentId
\* is decided by the last store write: the write of an add leaves exactly
\* one entry for it, with the type and time of that add, the write of a
\* remove leaves none, no write touches the entries of another contentId,
\* and no other step changes the list.
LastWriteDecides ==
    /\ [][\A u \in UserIds :
              LET count(ls, c) ==
                      Cardinality({i \in 1..Len(ls[u].items) :
                                       ls[u].items[i].contentId = c})
                  others(ls, c) ==
                      SelectSeq(ls[u].items, LAMBDA e : e.contentId # c)
                  addWrites == {p \in Procs : /\ pc[p] # "add_invalidate"
                                              /\ pc'[p] = "add_invalidate"
                                              /\ call[p].userId = u}
                  removeWrites == {p \in Procs : /\ pc[p] = "idle"
                                                 /\ call'[p].op = "remove"
                                                 /\ pc'[p] = "remove_invalidate"
                                                 /\ call'[p].userId = u}
              IN  /\ \A p \in addWrites :
                         /\ count(lists', call[p].contentId) = 1
                         /\ \E i \in 1..Len(lists'[u].items) :
                                lists'[u].items[i]
                                    = [contentId |-> call[p].contentId,
                                       contentType |-> call[p].contentType,
                                       addedAt |-> call[p].addedAt]
                         /\ others(lists', call[p].contentId)
                                = others(lists, call[p].contentId)
                  /\ \A p \in removeWrites :
                         /\ count(lists', call'[p].contentId) = 0
                         /\ others(lists', call'[p].contentId)
                                = others(lists, call'[p].contentId)
                  /\ (addWrites = {} /\ removeWrites = {})
                         => lists'[u].items = lists[u].items
                  /\ \A c \in ContentIds : count(lists', c) <= 1
         ]_vars
    /\ \A p \in Procs : (pc[p] # "idle") ~> (pc[p] = "idle")

\* an add and a remove of the same contentId of one user ran concurrently,
\* both have written and neither has returned; the add wrote last
LastWriteDecidesWitness ==
    \E p \in Procs, q \in Procs :
        /\ pc[p] = "add_invalidate"
        /\ pc[q] = "remove_invalidate"
        /\ call[p].userId = call[q].userId
        /\ call[p].contentId = call[q].contentId
        /\ \E i \in 1..Len(lists[call[p].userId].items) :
               lists[call[p].userId].items[i].contentId = call[p].contentId

\* C18: when requests of one user add distinct contentIds concurrently,
\* each for an existing user and existing content, an addToMyList returns
\* an error only for an entry that is already in the list, and when it
\* returns success its entry is in the list, also when the user had no list.
DistinctAddsAllSucceed ==
    [][\A p \in Procs :
           (call[p].op = "add" /\ pc[p] # "idle" /\ pc'[p] = "idle")
               => \/ /\ ret'.outcome = "success"
                     /\ \E i \in 1..Len(lists'[call[p].userId].items) :
                            lists'[call[p].userId].items[i].contentId
                                = call[p].contentId
                  \/ /\ ret'.outcome = "DuplicateItemError"
                     /\ \E i \in 1..Len(lists[call[p].userId].items) :
                            lists[call[p].userId].items[i].contentId
                                = call[p].contentId
      ]_vars

\* C19: once the mutations of a list have stopped, from some point on every
\* getMyList of its user returns the page computed from the store as it
\* is, given that cached pages expire and requests keep being served.
EventuallyCurrentPage ==
    <>[]((pc[1] = "idle" /\ ret.op = "get")
             => ret.response = ComputeResponse(lists, ret.userId, ret.page,
                                   ret.limit, ret.contentType))

\* the mutations have stopped, the last getMyList was answered from the
\* cache with a page the store does not have, and that page has now expired
EventuallyCurrentPageWitness ==
    /\ pc[1] = "idle"
    /\ now >= TtlTicks
    /\ ret.op = "get"
    /\ ret.fromCache
    /\ ret.response # ComputeResponse(lists, ret.userId, ret.page, ret.limit,
                                      ret.contentType)
    /\ LET key == getListCacheKey(ret.userId, ret.page, ret.limit, ret.contentType)
       IN  /\ key \in DOMAIN cache
           /\ cache[key].value = ret.response
           /\ cache[key].expiry < now

\* C20: a request of user u leaves the stored list of every other user as
\* it is, and neither its invalidation nor its setCachedList deletes or
\* overwrites a cached page of another user.
OtherUsersUntouched ==
    [][\A p \in Procs :
           /\ (pc[p] \notin {"add_invalidate", "remove_invalidate"}
               /\ pc'[p] \in {"add_invalidate", "remove_invalidate"})
                  => \A v \in UserIds \ {call'[p].userId} : lists'[v] = lists[v]
           /\ (pc[p] \in {"add_invalidate", "remove_invalidate", "get_setCache"}
               /\ pc'[p] = "idle")
                  => \A k \in DOMAIN cache :
                         cache[k].owner # call[p].userId
                             => /\ k \in DOMAIN cache'
                                /\ cache'[k].value = cache[k].value
                                /\ cache'[k].owner = cache[k].owner
      ]_vars

\* C21: the data of a getMyList computed from the store are the entries of
\* the fetched page that pass the filter and whose content the catalog
\* still has, in the order of the page; an entry whose content is gone is
\* left out, and the call returns that response with success.
MissingContentSkipped ==
    [][\A p \in Procs :
           /\ (pc[p] = "get_store" /\ pc'[p] = "get_setCache")
                  => LET fetched == getItemsPaginated(lists, call[p].userId,
                                        call[p].page, call[p].limit).items
                         kept == SelectSeq(fetched, LAMBDA e :
                                     /\ call[p].contentType \in {NoFilter, e.contentType}
                                     /\ e.contentId \in catalog[e.contentType])
                     IN  call'[p].response.data = kept
           /\ (pc[p] = "get_setCache" /\ pc'[p] = "idle")
                  => /\ ret'.outcome = "success"
                     /\ ret'.response = call[p].response
      ]_vars

\* a getMyList returned one entry of a page of two: the content of the
\* other entry is no longer in the catalog
MissingContentSkippedWitness ==
    /\ pc[1] = "idle"
    /\ ret.op = "get"
    /\ ret.outcome = "success"
    /\ ret.contentType = NoFilter
    /\ ret.limit = 2
    /\ Len(lists[ret.userId].items) = 2
    /\ Len(ret.response.data) = 1
    /\ \E i \in 1..2 :
           LET e == lists[ret.userId].items[i]
           IN  /\ e.contentId \notin catalog[e.contentType]
               /\ e.contentId # ret.response.data[1].contentId

\* C22: whatever the Redis connection attempt does, the startup ends with a
\* cache in place; when Redis is enabled and the attempt failed, or left
\* the client disconnected, that cache is the in-memory one, and the Redis
\* cache is chosen only when it is enabled and connected.
RedisFailureFallsBack ==
    boot.phase = "done"
        => /\ cacheOn
           /\ boot.instance \in {"redis", "memory"}
           /\ (boot.enabled /\ (boot.attempt = "failed" \/ ~boot.isConnected))
                  => boot.instance = "memory"
           /\ boot.instance = "redis"
                  => (boot.enabled /\ boot.attempt = "ready" /\ boot.isConnected)

\* Redis was enabled, the connection attempt failed, and a getMyList was
\* then answered from the in-memory cache
RedisFailureFallsBackWitness ==
    /\ boot.phase = "done"
    /\ boot.enabled
    /\ boot.attempt = "failed"
    /\ boot.instance = "memory"
    /\ ret.op = "get"
    /\ ret.fromCache

\* C23: a request during which the store or a lookup threw does not end in
\* success or in one of the four business errors, and its response is
\* status 500 with code INTERNAL_SERVER_ERROR and the generic message, not
\* the message of the error.
StoreFailureIsInternalError ==
    (pc[1] = "idle" /\ ret.err # "")
        => /\ ret.outcome \notin BusinessErrors \cup {"success"}
           /\ HttpResponse(ret).status = 500
           /\ HttpResponse(ret).code = "INTERNAL_SERVER_ERROR"
           /\ HttpResponse(ret).message = "An unexpected error occurred"
           /\ HttpResponse(ret).message # ret.outcome

\* the store threw in a getMyList
StoreFailureIsInternalErrorWitness ==
    /\ pc[1] = "idle"
    /\ ret.op = "get"
    /\ ret.err = StoreError
    /\ ret.outcome = StoreError
    /\ HttpResponse(ret).status = 500

\* C24: a request whose body or query fails the validation schema is
\* answered with status 400 and code VALIDATION_ERROR, and the list service
\* is not invoked for it: the step that rejects it starts no service call
\* and leaves the store and the cache as they are.
InvalidRequestIs400 ==
    [][(ret' # ret /\ ret'.details)
           => /\ HttpResponse(ret').status = 400
              /\ HttpResponse(ret').code = "VALIDATION_ERROR"
              /\ pc' = pc
              /\ lists' = lists
              /\ cache' = cache
      ]_vars

CachedPageServedAgain ==
    [][\A u \in UserIds : \A e \in lists[u].pages :
           /\ \A p \in Procs :
                  (pc[p] = "idle" /\ pc'[p] = "get_store" /\ call'[p].userId = u)
                      => e.key # getListCacheKey(u, call'[p].page, call'[p].limit,
                                     call'[p].contentType)
           /\ (ret' # ret /\ ret'.op = "get" /\ ret'.fromCache /\ ret'.userId = u
               /\ e.key = getListCacheKey(u, ret'.page, ret'.limit,
                              ret'.contentType))
                  => ret'.response = e.value
      ]_vars

\* C27: one invalidateUserList(u) removes every cached page of user u: when
\* the invalidation of an addToMyList or removeFromMyList of u has run
\* without a cache failure, no key of u is left in the cache, whatever page,
\* limit and filter it was stored under.
InvalidationRemovesEveryPage ==
    [][\A p \in Procs :
           (/\ pc[p] \in {"add_invalidate", "remove_invalidate"}
            /\ pc'[p] = "idle"
            /\ ~ret'.cacheFailed)
               => \A k \in DOMAIN cache' : cache'[k].owner # call[p].userId
      ]_vars

\* C28: a successful addToMyList(u, c, t) writes the store in exactly one
\* step, whose only effect is the entry (c, t, addedAt) appended to u's
\* list; when u had no list, the new list holds exactly that entry. A
\* successful removeFromMyList(u, c) writes in one step that only takes the
\* entries with contentId c out of u's list. The other entries keep their
\* fields and their order, no other user's list changes, and no other step
\* of the service changes any list.
OnlyTheEntryChanges ==
    [][/\ \A p \in Procs :
              (pc[p] # "add_invalidate" /\ pc'[p] = "add_invalidate")
                  => LET u == call[p].userId
                         item == [contentId |-> call[p].contentId,
                                  contentType |-> call[p].contentType,
                                  addedAt |-> call[p].addedAt]
                     IN  /\ lists'[u].exists
                         /\ lists'[u].items = Append(lists[u].items, item)
                         /\ ~lists[u].exists => lists'[u].items = <<item>>
                         /\ \A v \in UserIds \ {u} :
                                /\ lists'[v].exists = lists[v].exists
                                /\ lists'[v].items = lists[v].items
       /\ \A p \in Procs :
              (pc[p] # "remove_invalidate" /\ pc'[p] = "remove_invalidate")
                  => LET u == call'[p].userId
                     IN  /\ lists'[u].exists = lists[u].exists
                         /\ lists'[u].items
                                = SelectSeq(lists[u].items,
                                      LAMBDA e : e.contentId # call'[p].contentId)
                         /\ \A v \in UserIds \ {u} :
                                /\ lists'[v].exists = lists[v].exists
                                /\ lists'[v].items = lists[v].items
       /\ (\A p \in Procs :
               \/ pc'[p] \notin {"add_invalidate", "remove_invalidate"}
               \/ pc'[p] = pc[p])
              => \A v \in UserIds :
                     /\ lists'[v].exists = lists[v].exists
                     /\ lists'[v].items = lists[v].items
      ]_vars

\* a remove has succeeded on a list that a first add created and a later
\* add extended, and the entry it did not name is still there
OnlyTheEntryChangesWitness ==
    /\ ret.op = "remove"
    /\ ret.outcome = "success"
    /\ lists[ret.userId].docs = 1
    /\ Len(lists[ret.userId].items) = 1
    /\ lists[ret.userId].items[1].contentId # ret.contentId

\* C29: updatedAt of a user's list changes in exactly the store operations
\* that add or remove an entry: a step that changes the entries of the list
\* sets updatedAt to the time of the step, and a step that leaves the
\* entries as they are leaves updatedAt as it is.
UpdatedAtFollowsItems ==
    [][\A u \in UserIds :
           IF lists'[u].items # lists[u].items \/ lists'[u].exists # lists[u].exists
           THEN lists'[u].updatedAt = now
           ELSE lists'[u].updatedAt = lists[u].updatedAt
      ]_vars

\* C30: removeFromMyList(u, c) looks up neither the user nor the content:
\* called for an entry that is in u's list, it takes the entry out and goes
\* on to succeed, whether or not the user's document and the content's
\* document still exist.
RemoveChecksNoDirectory ==
    [][\A p \in Procs, u \in UserIds, c \in ContentIds :
           (/\ pc[p] = "idle"
            /\ itemExists(lists, u, c)
            /\ \/ /\ call'[p].op = "remove"
                  /\ call'[p].userId = u
                  /\ call'[p].contentId = c
               \/ /\ pc' = pc
                  /\ ret' # ret
                  /\ ret'.op = "remove"
                  /\ ret'.userId = u
                  /\ ret'.contentId = c)
               => /\ pc'[p] = "remove_invalidate"
                  /\ ~hasItem(lists'[u].items, c)
      ]_vars

\* a remove is about to succeed for a user whose document is gone and a
\* content id that is in no collection any more, on a list that still
\* holds its other entry
RemoveChecksNoDirectoryWitness ==
    /\ pc[1] = "remove_invalidate"
    /\ call[1].userId \notin users
    /\ \A t \in ContentTypes : ~contentExists(call[1].contentId, t)
    /\ Len(lists[call[1].userId].items) = 1
    /\ lists[call[1].userId].items[1].contentId # call[1].contentId

\* C31: with either backing cache, what get gives back for a key within
\* the time to live equals the value that was handed to set: the same
\* items with the same field values of the same types, the same
\* pagination.
CacheGivesBackWhatWasSet ==
    \A k \in DOMAIN cache :
        ~(cache[k].expiry < now)
            => IF boot.instance = "redis"
               THEN CachedValue(cache[k]) = JsPage(cache[k].handed)
               ELSE CachedValue(cache[k]) = cache[k].handed

\* C32: whenever no call is in flight, each cached page that has not
\* expired is the page getMyList would compute for its key from the
\* current store, after every interleaving of getMyList calls with the
\* addToMyList and removeFromMyList calls of the same user.
QuiescentCacheIsCurrent ==
    (\A p \in Procs : pc[p] = "idle")
        => \A k \in DOMAIN cache :
               ~(cache[k].expiry < now)
                   => \E filter \in ContentTypes \cup {NoFilter} :
                          LET v == cache[k].value
                              u == cache[k].owner
                          IN  /\ k = getListCacheKey(u, v.pagination.page,
                                         v.pagination.limit, filter)
                              /\ v = ComputeResponse(lists, u, v.pagination.page,
                                         v.pagination.limit, filter)

\* C33: an addToMyList or removeFromMyList that ends with a business error
\* has written nothing and invalidated nothing: neither the step on which
\* it returns the error nor the step before it (the lookups of an add that
\* goes on to the duplicate check) changes the items or updatedAt of any
\* list or any cached page.
BusinessErrorWritesNothing ==
    [][((\/ /\ ret' # ret
            /\ ret'.op \in {"add", "remove"}
            /\ ret'.outcome \in BusinessErrors
         \/ \E p \in Procs : pc[p] = "idle" /\ pc'[p] = "add_itemExists")
           => /\ cache' = cache
              /\ \A u \in UserIds :
                     /\ lists'[u].exists = lists[u].exists
                     /\ lists'[u].items = lists[u].items
                     /\ lists'[u].updatedAt = lists[u].updatedAt)
      ]_vars

\* a remove has just ended with ItemNotFoundError, after the clock moved,
\* while another user's list holds an entry and a page of it is cached
BusinessErrorWritesNothingWitness ==
    /\ ret.op = "remove"
    /\ ret.outcome = "ItemNotFoundError"
    /\ now > 0
    /\ cache # <<>>
    /\ \E u \in UserIds : lists[u].exists /\ lists[u].updatedAt < now

\* C34: with a contentType filter, every response of getMyList has
\* hasNextPage = false, for every list, page and limit.
FilteredHasNoNextPage ==
    (/\ ret.op = "get"
     /\ ret.outcome = "success"
     /\ ret.contentType # NoFilter)
        => ~ret.response.pagination.hasNextPage

\* the first page of one entry was asked with a filter that two entries of
\* the list match
FilteredHasNoNextPageWitness ==
    /\ \A p \in Procs : pc[p] = "idle"
    /\ ret.op = "get"
    /\ ret.outcome = "success"
    /\ ret.contentType # NoFilter
    /\ ret.page = 1
    /\ ret.limit = 1
    /\ Len(ret.response.data) = 1
    /\ Cardinality({i \in 1..Len(lists[ret.userId].items) :
           lists[ret.userId].items[i].contentType = ret.contentType}) = 2

\* C35: when getMyList reads a list of n entries with a limit, the
\* unfiltered pages 1..ceil(n / limit) that getItemsPaginated gives for
\* that list are full but for the last one, which holds the rest; read one
\* after the other they give every entry of the list exactly once, newest
\* addedAt first; every later page is empty.
PagesPartitionList ==
    \A u \in UserIds, limit \in 1..MaxLimit :
        (\E p \in Procs : /\ pc[p] = "get_store"
                           /\ call[p].userId = u
                           /\ call[p].limit = limit) =>
        LET items == lists[u].items
            n == Len(items)
            last == Ceil(n, limit)
            pageItems == [k \in 1..(last + MaxPage) |->
                             getItemsPaginated(lists, u, k, limit).items]
            whole == [g \in 1..n |->
                         pageItems[((g - 1) \div limit) + 1][((g - 1) % limit) + 1]]
        IN  /\ \A k \in 1..last :
                   Len(pageItems[k]) = IF k < last THEN limit
                                       ELSE n - (last - 1) * limit
            /\ \A k \in (last + 1)..(last + MaxPage) : pageItems[k] = <<>>
            /\ \A g, h \in 1..n : g < h => whole[g].addedAt >= whole[h].addedAt
            /\ \E f \in Permutations(1..n) : \A g \in 1..n : whole[g] = items[f[g]]

\* the second page of two was read from a list of three entries that were
\* not all added at the same time
PagesPartitionListWitness ==
    /\ \A p \in Procs : pc[p] = "idle"
    /\ ret.op = "get"
    /\ ret.contentType = NoFilter
    /\ ret.page = 2
    /\ ret.limit = 2
    /\ Len(lists[ret.userId].items) = 3
    /\ Len(ret.response.data) = 1
    /\ lists[ret.userId].items[1].addedAt < lists[ret.userId].items[3].addedAt

\* C36: the cache keys of two different (userId, page, limit, contentType)
\* never coincide, so a cached page is only returned to a getMyList with
\* the tuple it was stored under: every tuple whose key is the key of a
\* cache entry is the tuple of the getMyList that stored the entry, and a
\* response out of the cache is the entry of the request's own tuple.
KeysNeverCoincide ==
    /\ \A k \in DOMAIN cache :
           LET tuples == {t \in (DOMAIN lists) \X (1..MaxPage) \X (1..MaxLimit)
                                 \X (ContentTypes \cup {NoFilter}) :
                             getListCacheKey(t[1], t[2], t[3], t[4]) = k}
           IN  /\ Cardinality(tuples) = 1
               /\ \A t \in tuples :
                      /\ cache[k].owner = t[1]
                      /\ cache[k].handed.pagination.page = t[2]
                      /\ cache[k].handed.pagination.limit = t[3]
                      /\ t[4] # NoFilter
                             => \A i \in 1..Len(cache[k].handed.data) :
                                    cache[k].handed.data[i].contentType = t[4]
    /\ (ret.op = "get" /\ ret.fromCache)
           => /\ ret.response.pagination.page = ret.page
              /\ ret.response.pagination.limit = ret.limit
              /\ ret.contentType # NoFilter
                     => \A i \in 1..Len(ret.response.data) :
                            ret.response.data[i].contentType = ret.contentType

\* a page of the user whose id is "u:1" was served from the cache while a
\* page of user "u" is cached as well
KeysNeverCoincideWitness ==
    /\ ret.op = "get"
    /\ ret.fromCache
    /\ ret.userId = <<"u", ":", "1">>
    /\ \E k \in DOMAIN cache : cache[k].owner = <<"u">>

OneBackingInstance ==
    /\ Len(boot.backings) <= 1
    /\ Len(boot.cacheServices) <= 1
    /\ \A i \in DOMAIN boot.cacheServices :
           /\ boot.cacheServiceInstance = i
           /\ boot.cacheServices[i].cache \in {0, boot.factoryInstance}
           /\ cacheOn <=> (boot.cacheServices[i].cache # 0)
           /\ boot.cacheServices[i].cache # 0
                  => boot.instance = boot.backings[boot.cacheServices[i].cache]
    /\ (boot.cacheServices = <<>>) => ~cacheOn
    /\ \A m \in DOMAIN boot.myListServices :
           /\ boot.myListServices[m].cacheService # 0
           /\ boot.myListServices[m].cacheService = boot.cacheServiceInstance
    /\ boot.cacheService \in {0, boot.cacheServiceInstance}
    /\ \A s \in Starters :
           (boot.starters[s].at = "done"
            /\ boot.starters[s].kind # "getMyListService")
               => /\ boot.starters[s].ref # 0
                  /\ boot.starters[s].ref = boot.cacheServiceInstance

\* two callers of getMyListService both passed the null check and each
\* constructed a MyListService while Redis was enabled, and a page cached
\* through the one CacheService was then served
OneBackingInstanceWitness ==
    /\ boot.enabled
    /\ Len(boot.myListServices) = 2
    /\ Len(boot.backings) = 1
    /\ ret.op = "get"
    /\ ret.fromCache
    /\ Len(lists[UserA].items) > 0

====
